---------------------------- MODULE Spec2Model ----------------------------
(***************************************************************************)
(* A model of the gsc cryptographic toolkit (laenix/gsc): the GCM mode     *)
(* with its GHASH/GMAC, the CTR mode it is built on, the SM3 streaming     *)
(* digest, the SM2 public-key operations, the padding schemes and the      *)
(* ECB, CBC, CFB, OFB and CTR mode adapters.                               *)
(*                                                                         *)
(* Byte strings are sequences of 0..255, indexed from 1 (the code indexes  *)
(* from 0).  Every subsystem has its own variables and its own             *)
(* specification; a specification leaves the other subsystems' variables   *)
(* at their idle values.                                                   *)
(***************************************************************************)
EXTENDS Integers, Sequences, FiniteSets, TLC

VARIABLES
    gcm,        \* the GCM adapter built by NewGCMWithTagSize, or its error
    sealed,     \* the last Seal call: its inputs and what it returned
    opened,     \* the last Open call: its inputs and what it returned
    sm3,        \* the SM3 digest object (h, x, nx, len)
    written,    \* the bytes written to digest since New or the last Reset
    summed,     \* the Sum calls since the last Write or Reset: how many, the
                \* last result, the object checkSum worked on, and whether
                \* a Sum was taken earlier in this message
    sm2key,     \* the SM2 private key object in use
    sm2,        \* the last SM2 call: its inputs and what it returned
    pad,        \* the last padding call: its inputs and what it returned
    adapter,    \* the mode adapter (ECB, CBC, CFB, OFB or CTR) in use
    heap,       \* the byte arrays behind the IV/counter slices of the modes
    call,       \* the last Encrypt/Decrypt call on the adapter
    rc4,        \* the RC4 instance in use: its state, its key, how it was
                \* keyed and the bytes it was used for since
    rc4call,    \* the last Encrypt/Decrypt call on the RC4 instance
    rc5,        \* the RC5 instance in use, or what NewWithParams refused
    rc5call,    \* the last Encrypt/Decrypt call on the RC5 instance
    twofish,    \* the Twofish instance in use, or what New refused
    tfcall,     \* the last Encrypt/Decrypt call on the Twofish instance
    shared,     \* the memory two goroutines share: a block cipher instance
                \* and the caller's input block
    made,       \* the instance and the block as they were handed over
    goro,       \* the locals of the call of each goroutine
    options,    \* the Options value the example drivers are handed
    driver      \* the driver calls made with it: their inputs and results

GcmVars == <<gcm, sealed, opened>>
Sm3Vars == <<sm3, written, summed>>
Sm2Vars == <<sm2key, sm2>>
PadVars == <<pad>>
ModeVars == <<adapter, heap, call>>
Rc4Vars == <<rc4, rc4call>>
Rc5Vars == <<rc5, rc5call>>
TwofishVars == <<twofish, tfcall>>
SharedVars == <<shared, made, goro>>

\* the variables of the concurrent calls and of the example drivers
DriverVars == <<options, driver>>
OtherVars == <<SharedVars, DriverVars>>

\* the variables of the ciphers that are used on their own
CipherVars == <<Rc4Vars, Rc5Vars, TwofishVars, OtherVars>>

vars == <<gcm, sealed, opened, sm3, written, summed, sm2key, sm2, pad,
          adapter, heap, call, rc4, rc4call, rc5, rc5call,
          twofish, tfcall, shared, made, goro, options,
          driver>>

(***************************************************************************)
(* Bytes and bit operations.                                               *)
(***************************************************************************)
Byte == 0..255

RECURSIVE BitXor(_, _, _)
\* a ^ b on the low n bits
BitXor(a, b, n) ==
    IF n = 0 THEN 0
    ELSE (((a % 2) + (b % 2)) % 2) + 2 * BitXor(a \div 2, b \div 2, n - 1)

\* The byte XOR table: XorTab[a][b] = a ^ b.
XorTab == [a \in Byte |-> [b \in Byte |-> BitXor(a, b, 8)]]

Xor(a, b) == XorTab[a][b]

\* bit k (0 = least significant) of byte a
Bit(a, k) == (a \div (2 ^ k)) % 2

\* A byte string given as a function, as an explicit sequence.  TLC keeps
\* [i \in 1..n |-> e] unevaluated and evaluates e again at every use;
\* concatenation evaluates it once.
Bytes(f) == f \o <<>>

\* TLC evaluates the argument of an operator where the operator first uses
\* it, so a loop written as a recursion would pass a growing chain of
\* unevaluated steps to its next round.  The loops below start with a test
\* "Len(s) < 0", which is FALSE for every sequence s and makes TLC evaluate
\* s there.

Zeros(n) == Bytes([i \in 1..n |-> 0])

Min(a, b) == IF a < b THEN a ELSE b

\* s[from..to), 0-based and half-open as a Go slice expression s[from:to]
Slice(s, from, to) == Bytes([i \in 1..(to - from) |-> s[from + i]])

\* modes/internal.XORBytes: dst[i] = a[i] ^ b[i] for i < min(len(a), len(b));
\* the bytes of dst beyond that stay as they were (here: dst is fresh, zero).
XORBytes(dst, a, b) ==
    Bytes([i \in 1..Len(dst) |->
             IF i <= Min(Len(a), Len(b)) THEN Xor(a[i], b[i]) ELSE dst[i]])

\* the loop of Increment without its second round: no carry
IncrementNoCarry(counter, i) ==
    IF i < 1 THEN counter ELSE [counter EXCEPT ![i] = (counter[i] + 1) % 256]

RECURSIVE IncrementFrom(_, _)
\* the loop of Increment from index i (1-based) downwards
IncrementFrom(counter, i) ==
    IF i < 1 THEN counter
    ELSE LET c == [counter EXCEPT ![i] = (counter[i] + 1) % 256]
         IN  IF c[i] # 0 THEN c ELSE IncrementFrom(c, i - 1)

\* modes/internal.Increment: add one to the big-endian counter, wrapping
Increment(counter) == IncrementFrom(counter, Len(counter))

\* modes/internal.DuplicateSlice
DuplicateSlice(src) == Bytes([i \in 1..Len(src) |-> src[i]])

(***************************************************************************)
(* Block ciphers, as the modes see them: the BlockCipher interface         *)
(* (Encrypt, Decrypt, BlockSize).  A cipher is a record [kind, key]; its   *)
(* block size is the length of its key.  The modes work with any           *)
(* implementation of the interface, so the model offers a family of keyed  *)
(* permutations:                                                           *)
(*   "xor"    E(x)[i] = x[i] ^ key[i]                                      *)
(*   "rotadd" E(x)[i] = (x[i+1 mod n] + key[i]) mod 256                    *)
(***************************************************************************)
CipherBlockSize(c) == Len(c.key)

CipherEncrypt(c, block) ==
    LET n == Len(c.key) IN
    IF c.kind = "xor"
    THEN Bytes([i \in 1..n |-> Xor(block[i], c.key[i])])
    ELSE Bytes([i \in 1..n |-> (block[(i % n) + 1] + c.key[i]) % 256])

CipherDecrypt(c, block) ==
    LET n == Len(c.key) IN
    IF c.kind = "xor"
    THEN Bytes([i \in 1..n |-> Xor(block[i], c.key[i])])
    ELSE Bytes([i \in 1..n |->
                  LET j == ((i + n - 2) % n) + 1
                  IN  (block[j] + 256 - c.key[j]) % 256])

(***************************************************************************)
(* GHASH and GMAC (modes/internal).                                        *)
(***************************************************************************)
\* shiftRight: the 16-byte array one bit to the right
shiftRight(v) ==
    Bytes([i \in 1..16 |->
             IF i = 1 THEN v[1] \div 2
             ELSE (v[i] \div 2) + 128 * (v[i - 1] % 2)])

\* one round of GHASH.multiply's inner loop, for bit j (0 = the top bit) of
\* the byte yi: zv = <<z, v>> becomes <<z ^ v if the bit is set, v * x>>
multiplyBit(yi, zv, j) ==
    LET z   == zv[1]
        v   == zv[2]
        z1  == IF Bit(yi, 7 - j) = 1
               THEN Bytes([k \in 1..16 |-> Xor(z[k], v[k])])
               ELSE z
        bit == v[16] % 2
        v1  == shiftRight(v)
        v2  == IF bit = 1 THEN [v1 EXCEPT ![1] = Xor(v1[1], 225)] ELSE v1
    IN  <<z1, v2>>

RECURSIVE multiplyBits(_, _, _)
\* the inner loop of GHASH.multiply, j = 0..7, over the byte yi
multiplyBits(yi, zv, j) ==
    IF j = 8 \/ Len(zv) < 0 THEN zv
    ELSE multiplyBits(yi, multiplyBit(yi, zv, j), j + 1)

RECURSIVE multiplyBytes(_, _, _)
\* the outer loop of GHASH.multiply, i = 0..15, over the bytes of y
multiplyBytes(y, zv, i) ==
    IF i = 16 \/ Len(zv) < 0 THEN zv[1]
    ELSE multiplyBytes(y, multiplyBits(y[i + 1], zv, 0), i + 1)

\* GHASH.multiply: y * H in GF(2^128); z starts at zero and v at H
multiply(h, y) == multiplyBytes(y, <<Zeros(16), h>>, 0)

RECURSIVE UpdateFrom(_, _, _, _)
\* GHASH.Update from offset i (0-based): xor the next block of data into y
\* (as many bytes as there are), then multiply by H
UpdateFrom(h, data, y, i) ==
    IF i >= Len(data) \/ Len(y) < 0 THEN y
    ELSE LET y1 == Bytes([j \in 1..16 |->
                      IF i + j <= Len(data) THEN Xor(y[j], data[i + j]) ELSE y[j]])
         IN  UpdateFrom(h, data, multiply(h, y1), i + 16)

Update(h, data, y) == UpdateFrom(h, data, y, 0)

\* n as 8 big-endian bytes (uint64); the lengths of the model are below 2^32
BigEndian64(n) ==
    Bytes([i \in 1..8 |-> IF i <= 4 THEN 0 ELSE (n \div (256 ^ (8 - i))) % 256])

\* one of GMAC's two absorb steps: the data, then zero bytes up to a block
Absorb(h, data, y) ==
    IF Len(data) > 0
    THEN LET y1      == Update(h, data, y)
             padding == 16 - (Len(data) % 16)
         IN  IF padding < 16 THEN Update(h, Zeros(padding), y1) ELSE y1
    ELSE y

\* GMAC's lengthBytes: the bit lengths of its two arguments, big-endian
lengthBytes(aad, ciphertext) ==
    BigEndian64(Len(aad) * 8) \o BigEndian64(Len(ciphertext) * 8)

\* GMAC(h, j0, aad, ciphertext)
GMAC(h, j0, aad, ciphertext) ==
    LET y1 == Absorb(h, aad, Zeros(16))
        y2 == Absorb(h, ciphertext, y1)
        y3 == Update(h, lengthBytes(aad, ciphertext), y2)
    IN  XORBytes(Zeros(16), y3, j0)

(***************************************************************************)
(* CTR mode (NewCTR, CTR.Encrypt, CTR.Decrypt).                            *)
(***************************************************************************)
ErrInvalidIV       == "invalid_iv"
ErrInvalidNonce    == "invalid_nonce"
ErrInvalidDataSize == "invalid_data_size"
ErrTagMismatch     == "tag_mismatch"
ErrTagSize         == "gcm_tag_size"
ErrBlockSize       == "gcm_block_size"
NoError            == "nil"

\* a (value, error) pair as the Go functions return it
Ok(v)    == [val |-> v, err |-> NoError]
Fail(e)  == [val |-> <<>>, err |-> e]

NewCTR(cipher, initialCounter) ==
    IF Len(initialCounter) # CipherBlockSize(cipher)
    THEN Fail(ErrInvalidIV)
    ELSE Ok([cipher |-> cipher, counter |-> DuplicateSlice(initialCounter)])

RECURSIVE CTRLoop(_, _, _, _, _)
\* the loop of CTR.Encrypt at offset i (0-based) with the running counter
CTRLoop(cipher, plaintext, ciphertext, counter, i) ==
    IF i >= Len(plaintext) THEN ciphertext
    ELSE LET blockSize        == CipherBlockSize(cipher)
             encryptedCounter == CipherEncrypt(cipher, counter)
             n  == IF i + blockSize > Len(plaintext)
                   THEN Len(plaintext) - i ELSE blockSize
             c1 == Bytes([k \in 1..Len(plaintext) |->
                      IF k > i /\ k <= i + n
                      THEN Xor(plaintext[k], encryptedCounter[k - i])
                      ELSE ciphertext[k]])
         IN  CTRLoop(cipher, plaintext, c1, Increment(counter), i + n)

CTREncrypt(c, plaintext) ==
    Ok(CTRLoop(c.cipher, plaintext, Zeros(Len(plaintext)), c.counter, 0))

CTRDecrypt(c, ciphertext) == CTREncrypt(c, ciphertext)

(***************************************************************************)
(* GCM mode (NewGCMWithTagSize, Seal, Open, deriveJ0, computeTag).         *)
(***************************************************************************)
defaultGCMTagSize   == 16
defaultGCMNonceSize == 12

NewGCMWithTagSize(cipher, tagSize) ==
    IF tagSize < 4 \/ tagSize > 16 THEN Fail(ErrTagSize)
    ELSE IF CipherBlockSize(cipher) # 16 THEN Fail(ErrBlockSize)
    ELSE Ok([cipher  |-> cipher,
             tagSize |-> tagSize,
             h       |-> CipherEncrypt(cipher, Zeros(16))])

\* deriveJ0 for a 12-byte nonce: nonce || 00 00 00 01
deriveJ0(nonce) ==
    Bytes([i \in 1..16 |->
             IF i <= Len(nonce) THEN nonce[i] ELSE IF i = 16 THEN 1 ELSE 0])

\* the zero padding computeTag applies to each of its inputs
PadTo16(data) ==
    LET d == DuplicateSlice(data) IN
    IF Len(d) % 16 # 0 THEN d \o Zeros(16 - (Len(d) % 16)) ELSE d

\* the length block of the GMAC call that computeTag makes
computeTagLengths(aad, ciphertext) == lengthBytes(PadTo16(aad), PadTo16(ciphertext))

\* computeTag: both inputs are padded, then handed to GMAC
computeTag(g, j0, aad, ciphertext) ==
    GMAC(g.h, j0, PadTo16(aad), PadTo16(ciphertext))

\* Seal with the keystream started at J0 itself, not at inc(J0)
SealFromJ0(g, nonce, plaintext, additionalData) ==
    IF Len(nonce) # defaultGCMNonceSize THEN Fail(ErrInvalidNonce)
    ELSE LET j0      == deriveJ0(nonce)
             ctrMode == NewCTR(g.cipher, j0)
         IN  IF ctrMode.err # NoError THEN Fail(ctrMode.err)
             ELSE LET ciphertext == CTREncrypt(ctrMode.val, plaintext).val
                      tag        == computeTag(g, j0, additionalData, ciphertext)
                  IN  Ok(ciphertext \o Slice(tag, 0, g.tagSize))

Seal(g, nonce, plaintext, additionalData) ==
    IF Len(nonce) # defaultGCMNonceSize THEN Fail(ErrInvalidNonce)
    ELSE LET j0      == deriveJ0(nonce)
             counter == Increment(j0)
             ctrMode == NewCTR(g.cipher, counter)
         IN  IF ctrMode.err # NoError THEN Fail(ctrMode.err)
             ELSE LET ciphertext == CTREncrypt(ctrMode.val, plaintext).val
                      tag        == computeTag(g, j0, additionalData, ciphertext)
                  IN  Ok(ciphertext \o Slice(tag, 0, g.tagSize))

\* Open without the comparison of the tags
OpenUnverified(g, nonce, ciphertext, additionalData) ==
    IF Len(nonce) # defaultGCMNonceSize THEN Fail(ErrInvalidNonce)
    ELSE IF Len(ciphertext) < g.tagSize THEN Fail(ErrInvalidDataSize)
    ELSE LET tagStart         == Len(ciphertext) - g.tagSize
             actualCiphertext == Slice(ciphertext, 0, tagStart)
             ctrMode          == NewCTR(g.cipher, Increment(deriveJ0(nonce)))
         IN  IF ctrMode.err # NoError THEN Fail(ctrMode.err)
             ELSE CTRDecrypt(ctrMode.val, actualCiphertext)

Open(g, nonce, ciphertext, additionalData) ==
    IF Len(nonce) # defaultGCMNonceSize THEN Fail(ErrInvalidNonce)
    ELSE IF Len(ciphertext) < g.tagSize THEN Fail(ErrInvalidDataSize)
    ELSE LET tagStart         == Len(ciphertext) - g.tagSize
             actualCiphertext == Slice(ciphertext, 0, tagStart)
             tag              == Slice(ciphertext, tagStart, Len(ciphertext))
             j0               == deriveJ0(nonce)
             expectedTag      == computeTag(g, j0, additionalData, actualCiphertext)
         IN  IF Slice(expectedTag, 0, g.tagSize) # tag THEN Fail(ErrTagMismatch)
             ELSE LET ctrMode == NewCTR(g.cipher, Increment(j0))
                  IN  IF ctrMode.err # NoError THEN Fail(ctrMode.err)
                      ELSE CTRDecrypt(ctrMode.val, actualCiphertext)

(***************************************************************************)
(* SM3 (sm3/sm3.go, sm3/internal).  A uint32 is kept as its four bytes,    *)
(* most significant first.                                                 *)
(***************************************************************************)
BlockSize == 64
Size      == 32

RECURSIVE BitAnd(_, _, _)
\* a & b on the low n bits
BitAnd(a, b, n) ==
    IF n = 0 THEN 0
    ELSE ((a % 2) * (b % 2)) + 2 * BitAnd(a \div 2, b \div 2, n - 1)

\* The byte AND table: AndTab[a][b] = a & b.
AndTab == [a \in Byte |-> [b \in Byte |-> BitAnd(a, b, 8)]]

And(a, b) == AndTab[a][b]

\* a | b = (a ^ b) + (a & b)
Or(a, b) == Xor(a, b) + And(a, b)

WXor(a, b) ==
    IF Len(a) < 0 THEN a
    ELSE <<Xor(a[1], b[1]), Xor(a[2], b[2]), Xor(a[3], b[3]), Xor(a[4], b[4])>>
WAnd(a, b) == <<And(a[1], b[1]), And(a[2], b[2]), And(a[3], b[3]), And(a[4], b[4])>>
WOr(a, b)  == <<Or(a[1], b[1]), Or(a[2], b[2]), Or(a[3], b[3]), Or(a[4], b[4])>>
WNot(a)    == <<255 - a[1], 255 - a[2], 255 - a[3], 255 - a[4]>>

\* a + b modulo 2^32
WAdd(a, b) ==
    LET s4 == a[4] + b[4]
        s3 == a[3] + b[3] + (s4 \div 256)
        s2 == a[2] + b[2] + (s3 \div 256)
        s1 == a[1] + b[1] + (s2 \div 256)
    IN  IF Len(a) < 0 THEN a
        ELSE <<s1 % 256, s2 % 256, s3 % 256, s4 % 256>>

\* bits.RotateLeft32(x, k): rotate left by k mod 32 bits
RotateLeft32(x, k) ==
    LET q == (k % 32) \div 8
        r == k % 8
        B(i) == x[((i + q - 1) % 4) + 1]
    IN  Bytes([i \in 1..4 |->
                 ((B(i) * (2 ^ r)) % 256) + (B(i + 1) \div (2 ^ (8 - r)))])

\* sm3/internal.IV
IV ==
    << <<115, 128, 22, 111>>, <<73, 20, 178, 185>>, <<23, 36, 66, 215>>,
       <<218, 138, 6, 0>>,    <<169, 111, 48, 188>>, <<22, 49, 56, 170>>,
       <<227, 141, 238, 77>>, <<176, 251, 14, 78>> >>

\* sm3/internal.T: 0x79CC4519 for j < 16, 0x7A879D8A from j = 16 on
T(j) == IF j < 16 THEN <<121, 204, 69, 25>> ELSE <<122, 135, 157, 138>>

ff(x, y, z, j) ==
    IF j <= 15 THEN WXor(WXor(x, y), z)
    ELSE WOr(WOr(WAnd(x, y), WAnd(x, z)), WAnd(y, z))

gg(x, y, z, j) ==
    IF j <= 15 THEN WXor(WXor(x, y), z)
    ELSE WOr(WAnd(x, y), WAnd(WNot(x), z))

p0(x) == WXor(WXor(x, RotateLeft32(x, 9)), RotateLeft32(x, 17))

p1(x) == WXor(WXor(x, RotateLeft32(x, 15)), RotateLeft32(x, 23))

\* w[i] of block's expansion loop (w is 1-based here: w[i + 1] is the
\* code's w[i]), from the value of p1(...) on
expandEnd(w, i, p) ==
    IF Len(p) < 0 THEN p
    ELSE WXor(WXor(p, RotateLeft32(w[i - 12], 7)), w[i - 5])

\* from the argument of p1 on
expandP1(w, i, x) == IF Len(x) < 0 THEN x ELSE expandEnd(w, i, p1(x))

expandWord(w, i) ==
    expandP1(w, i, WXor(WXor(w[i - 15], w[i - 8]), RotateLeft32(w[i - 2], 15)))

RECURSIVE expand(_, _, _)
\* the message expansion of block: w[i] for i = from .. to-1, the range
\* halved until it is one word
expand(w, from, to) ==
    IF Len(w) < 0 THEN w
    ELSE IF to - from = 1 THEN Append(w, expandWord(w, from))
    ELSE expand(expand(w, from, (from + to) \div 2), (from + to) \div 2, to)

\* The statements of round j of the compression loop on v = <<a, b, c, d,
\* e, f, g, h>>, each from the values of the statements before it.
\* the rotation of the eight registers, with e = p0(tt2)
roundEnd(v, tt1, e) ==
    IF Len(e) < 0 THEN v
    ELSE <<tt1, v[1], RotateLeft32(v[2], 9), v[3],
           e, v[5], RotateLeft32(v[6], 19), v[7]>>

\* tt2 := gg(e, f, g, j) + h + ss1 + w[j], with g = gg(e, f, g, j)
roundTT2(v, w, j, ss1, tt1, g) ==
    IF Len(tt1) < 0 \/ Len(g) < 0 THEN v
    ELSE roundEnd(v, tt1, p0(WAdd(WAdd(WAdd(g, v[8]), ss1), w[j + 1])))

\* tt1 := ff(a, b, c, j) + d + ss2 + w1[j], with f = ff(a, b, c, j)
roundTT1(v, w, j, ss1, ss2, f) ==
    IF Len(ss2) < 0 \/ Len(f) < 0 THEN v
    ELSE roundTT2(v, w, j, ss1,
                  WAdd(WAdd(WAdd(f, v[4]), ss2), WXor(w[j + 1], w[j + 5])),
                  gg(v[5], v[6], v[7], j))

\* ss2 := ss1 ^ RotateLeft32(a, 12)
roundSS2(v, w, j, a12, ss1) ==
    IF Len(ss1) < 0 THEN v
    ELSE roundTT1(v, w, j, ss1, WXor(ss1, a12), ff(v[1], v[2], v[3], j))

\* ss1 := RotateLeft32(RotateLeft32(a, 12) + e + RotateLeft32(T[j], j), 7)
roundSS1(v, w, j, a12) ==
    IF Len(a12) < 0 THEN v
    ELSE roundSS2(v, w, j, a12,
                  RotateLeft32(WAdd(WAdd(a12, v[5]), RotateLeft32(T(j), j)), 7))

\* one round j of the compression loop
round(v, w, j) == roundSS1(v, w, j, RotateLeft32(v[1], 12))

RECURSIVE rounds(_, _, _, _)
\* rounds j = from .. to-1, the range halved until it is one round
rounds(v, w, from, to) ==
    IF Len(v) < 0 THEN v
    ELSE IF to - from = 1 THEN round(v, w, from)
    ELSE rounds(rounds(v, w, from, (from + to) \div 2), w, (from + to) \div 2, to)

\* h[i] ^ v[i] for the eight registers
feedForward(h, v) == Bytes([i \in 1..8 |-> WXor(h[i], v[i])])

\* the compression loop on the expanded block w
compressRounds(h, w) == IF Len(w) < 0 THEN h ELSE rounds(h, w, 0, 64)

\* "h0 ^= a ... h7 ^= h" on the registers v that the loop ended with
compressEnd(h, v) == IF Len(v) < 0 THEN v ELSE feedForward(h, v)

\* the body of block's loop: the chaining value after the 64 bytes p
compress(h, p) ==
    compressEnd(h, compressRounds(h,
                       expand(Bytes([i \in 1..16 |-> Slice(p, 4 * (i - 1), 4 * i)]),
                              16, 68)))

RECURSIVE blockFrom(_, _, _)
\* digest.block from offset off: every whole 64-byte block of p is compressed
\* into d.h; fed records the bytes compressed so far
blockFrom(d, p, off) ==
    IF Len(p) - off < BlockSize \/ Len(d.h) < 0 THEN d
    ELSE blockFrom([d EXCEPT !.h = compress(d.h, Slice(p, off, off + BlockSize)),
                             !.fed = d.fed \o Slice(p, off, off + BlockSize)],
                   p, off + BlockSize)

block(d, p) == blockFrom(d, p, 0)

\* copy(dst[at:], src): dst with as many bytes of src as fit from index at
\* (0-based); CopyCount is what copy returns
CopyCount(dst, at, src) == Min(Len(dst) - at, Len(src))

Copy(dst, at, src) ==
    Bytes([i \in 1..Len(dst) |->
             IF i > at /\ i <= at + CopyCount(dst, at, src) THEN src[i - at]
             ELSE dst[i]])

\* New / Reset: the IV, nx = 0, len = 0.  (Reset leaves the buffer x as it
\* is; a new digest has a zero buffer.)
Reset(d) == [d EXCEPT !.h = IV, !.nx = 0, !.len = 0, !.fed = <<>>]

New == [h |-> IV, x |-> Zeros(BlockSize), nx |-> 0, len |-> 0, fed |-> <<>>]

\* a full buffer that is left as it is
WriteFullKept(d, p) == [d |-> d, p |-> p]

\* Write, "if d.nx == BlockSize": compress the full buffer
WriteFull(d, p) ==
    IF d.nx = BlockSize THEN [d |-> [block(d, d.x) EXCEPT !.nx = 0], p |-> p]
    ELSE [d |-> d, p |-> p]

\* Write, "if d.nx > 0": fill the buffer from p.  The digest and the rest of p.
WriteHead(d, p) ==
    IF d.nx > 0
    THEN WriteFull([d EXCEPT !.x = Copy(d.x, d.nx, p),
                             !.nx = d.nx + CopyCount(d.x, d.nx, p)],
                   Slice(p, CopyCount(d.x, d.nx, p), Len(p)))
    ELSE [d |-> d, p |-> p]

\* Write, "if len(p) >= BlockSize": compress the whole blocks of p
WriteBlocks(d, p) ==
    IF Len(p) >= BlockSize
    THEN [d |-> block(d, Slice(p, 0, Len(p) - (Len(p) % BlockSize))),
          p |-> Slice(p, Len(p) - (Len(p) % BlockSize), Len(p))]
    ELSE [d |-> d, p |-> p]

\* the rest kept in the buffer without "d.nx =": the count stays
WriteTailUncounted(d, p) ==
    IF Len(p) > 0 THEN [d EXCEPT !.x = Copy(d.x, 0, p)] ELSE d

\* Write, "if len(p) > 0": keep the rest in the buffer
WriteTail(d, p) ==
    IF Len(p) > 0
    THEN [d EXCEPT !.x = Copy(d.x, 0, p), !.nx = CopyCount(d.x, 0, p)]
    ELSE d

WriteFromBlocks(st) ==
    IF Len(st.p) < 0 THEN st.d
    ELSE WriteTail(WriteBlocks(st.d, st.p).d, WriteBlocks(st.d, st.p).p)

\* digest.Write
Write(d, p) == WriteFromBlocks(WriteHead([d EXCEPT !.len = d.len + Len(p)], p))

\* the eight state words, big-endian
DigestBytes(h) == h[1] \o h[2] \o h[3] \o h[4] \o h[5] \o h[6] \o h[7] \o h[8]

\* What a call returns: bytes, or a run-time panic.
Returned(bytes) == [panic |-> FALSE, bytes |-> bytes]
Panic           == [panic |-> TRUE, bytes |-> <<>>]

\* checkSum after its two Writes: "if d.nx != 0 { panic }", then the digest
checkSumEnd(d) ==
    IF d.nx # 0 THEN [res |-> Panic, d |-> d]
    ELSE [res |-> Returned(DigestBytes(d.h)), d |-> d]

\* checkSum after the Write of the padding: the Write of the length
checkSumLen(d, len) ==
    IF Len(d.h) < 0 THEN [res |-> Panic, d |-> d]
    ELSE checkSumEnd(Write(d, BigEndian64(len * 8)))

\* digest.checkSum: the padding, the length, the digest.  tmp[:1+padLen] on
\* the 64-byte array tmp panics when 1 + padLen > 64.  The result and the
\* digest object as checkSum left it.
checkSum(d) ==
    LET len     == d.len
        padLen0 == BlockSize - ((len + 1 + 8) % BlockSize)
        padLen  == IF padLen0 <= 0 THEN padLen0 + BlockSize ELSE padLen0
        tmp     == [Zeros(BlockSize) EXCEPT ![1] = 128]
    IN  IF 1 + padLen > BlockSize
        THEN [res |-> Panic, d |-> d]
        ELSE checkSumLen(Write(d, Slice(tmp, 0, 1 + padLen)), len)

\* the outcome of a Sum call: the result, the receiver after the call, and
\* the object checkSum worked on
SumOutcome(r, d) == [res |-> r.res, d |-> d, d0 |-> r.d]

SumFinished(r) == SumOutcome(r, r.d)

\* digest.Sum(nil) without the copy: checkSum runs on the receiver itself
SumInPlace(d) == SumFinished(checkSum(d))

\* digest.Sum(nil): d0 := *d, then checkSum on d0
Sum(d) == SumOutcome(checkSum(d), d)

\* sm3.Sum(data): New, Write, Sum
SumData(data) == Sum(Write(Reset(New), data)).res

(***************************************************************************)
(* SM2 (package sm2).  A *big.Int is an integer.  The curve has the shape  *)
(* of SM2P256V1 (a = p - 3, a base point of prime order n < p, cofactor 1) *)
(* over a 9-bit prime, so that the arithmetic stays within the integers    *)
(* TLC has; what the code writes as 32, 64 and 65 bytes is byteLen,        *)
(* 2 * byteLen and 1 + 2 * byteLen bytes of this curve.  Pointers are      *)
(* never nil.                                                              *)
(***************************************************************************)
sm2P256Curve ==
    [P |-> 271, A |-> 268, B |-> 7, N |-> 269, Gx |-> 260, Gy |-> 263,
     BitSize |-> 9]

sm2A == sm2P256Curve.A

\* (curve.Params().BitSize + 7) / 8
ByteLen == (sm2P256Curve.BitSize + 7) \div 8

PrivateKeySize == ByteLen
PublicKeySize  == 1 + 2 * ByteLen
SignatureSize  == 2 * ByteLen

ErrInvalidPrivateKey == "invalid_private_key"
ErrInvalidPublicKey  == "invalid_public_key"
ErrInvalidCiphertext == "invalid_ciphertext"
ErrDecryptionFailed  == "decryption_failed"
ErrPointFormat       == "unsupported_point_format"
ErrC1NotOnCurve      == "c1_not_on_curve"

\* a call that ended in a run-time panic
Panicked == [val |-> <<>>, err |-> "panic"]

\* Sign at "goto retry": nothing is returned, another k is drawn
Retry == [val |-> <<>>, err |-> "retry"]

RECURSIVE BigBytes(_)
\* x.Bytes(): the big-endian bytes of x, without leading zeros
BigBytes(x) == IF x = 0 THEN <<>> ELSE Append(BigBytes(x \div 256), x % 256)

RECURSIVE SetBytes(_)
\* new(big.Int).SetBytes(b)
SetBytes(b) ==
    IF Len(b) = 0 THEN 0
    ELSE 256 * SetBytes(SubSeq(b, 1, Len(b) - 1)) + b[Len(b)]

\* copy(buf[n-len(b):n], b) into n zero bytes: b left-padded to n bytes
PadLeft(b, n) == Zeros(n - Len(b)) \o b

\* x.FillBytes(make([]byte, n))
FillBytes(x, n) == PadLeft(BigBytes(x), n)

RECURSIVE BitLen(_)
\* x.BitLen()
BitLen(x) == IF x = 0 THEN 0 ELSE 1 + BitLen(x \div 2)

\* the inverses modulo m, at index g + 1 for g in 0..m-1; 0 where g has none
Inverses(m) ==
    Bytes([j \in 1..m |->
             IF \E i \in 1..(m - 1) : ((j - 1) * i) % m = 1
             THEN CHOOSE i \in 1..(m - 1) : ((j - 1) * i) % m = 1
             ELSE 0])

InversesModP == Inverses(sm2P256Curve.P)
InversesModN == Inverses(sm2P256Curve.N)

\* new(big.Int).ModInverse(g, m) for m the curve's P or N: nil when g has no
\* inverse modulo m
ModInverse(g, m) ==
    LET v == IF m = sm2P256Curve.P THEN InversesModP[(g % m) + 1]
             ELSE InversesModN[(g % m) + 1]
    IN  [nil |-> v = 0, val |-> v]

\* sm2Curve.IsOnCurve
IsOnCurve(x, y) ==
    IF x < 0 \/ x >= sm2P256Curve.P \/ y < 0 \/ y >= sm2P256Curve.P THEN FALSE
    ELSE (y * y) % sm2P256Curve.P
         = ((((x * x * x) % sm2P256Curve.P) + ((sm2A * x) % sm2P256Curve.P))
            + sm2P256Curve.B) % sm2P256Curve.P

\* x3, y3 of Add and Double from lambda
chord(lambda, x1, y1, x2) ==
    LET x3 == (((lambda * lambda) % sm2P256Curve.P) - x1 - x2) % sm2P256Curve.P
    IN  <<x3, (((x1 - x3) * lambda) - y1) % sm2P256Curve.P>>

\* sm2Curve.Double; the point at infinity is (0, 0)
Double(x, y) ==
    IF y = 0 THEN <<0, 0>>
    ELSE chord(((((((x * x) % sm2P256Curve.P) * 3) + sm2A) % sm2P256Curve.P)
                * ModInverse((2 * y) % sm2P256Curve.P, sm2P256Curve.P).val)
               % sm2P256Curve.P,
               x, y, x)

\* sm2Curve.Add
Add(x1, y1, x2, y2) ==
    IF x1 = 0 /\ y1 = 0 THEN <<x2, y2>>
    ELSE IF x2 = 0 /\ y2 = 0 THEN <<x1, y1>>
    ELSE IF x1 = x2
         THEN IF y1 # y2 THEN <<0, 0>> ELSE Double(x1, y1)
    ELSE chord((((y2 - y1) % sm2P256Curve.P)
                * ModInverse((x2 - x1) % sm2P256Curve.P, sm2P256Curve.P).val)
               % sm2P256Curve.P,
               x1, y1, x2)

\* one round of ScalarMult's loop: double, and add the point where bit i is set
scalarMultStep(r, x, y, kInt, i) ==
    IF Bit(kInt, i) = 1 THEN Add(r[1], r[2], x, y) ELSE r

RECURSIVE scalarMultLoop(_, _, _, _, _)
scalarMultLoop(r, x, y, kInt, i) ==
    IF i < 0 \/ Len(r) < 0 THEN r
    ELSE scalarMultLoop(scalarMultStep(Double(r[1], r[2]), x, y, kInt, i),
                        x, y, kInt, i - 1)

\* sm2Curve.ScalarMult: double-and-add from the top bit of k
ScalarMult(x, y, k) ==
    IF SetBytes(k) = 0 THEN <<0, 0>>
    ELSE scalarMultLoop(<<0, 0>>, x, y, SetBytes(k), BitLen(SetBytes(k)) - 1)

\* sm2Curve.ScalarBaseMult
ScalarBaseMult(k) == ScalarMult(sm2P256Curve.Gx, sm2P256Curve.Gy, k)

\* what randFieldElement can return: 1 .. n-1
randFieldElement == 1..(sm2P256Curve.N - 1)

RECURSIVE writeAll(_, _, _)
\* hash.Write(parts[i]) for each part in turn
writeAll(d, parts, i) ==
    IF i > Len(parts) \/ Len(d.h) < 0 THEN d
    ELSE writeAll(Write(d, parts[i]), parts, i + 1)

\* hash.Reset(), the Writes, hash.Sum(nil)
hashOf(parts) == Sum(writeAll(Reset(New), parts, 1)).res

\* one round i of the key derivation loop on st = [tmp, kdf]: kdf[i] is
\* tmp[i] for i < len(tmp), and from there on tmp is hashed again for every
\* i, from x2, y2 and the byte i / len(tmp)
kdfAgain(tmp, kdf, i) ==
    IF tmp.panic THEN [tmp |-> tmp, kdf |-> kdf]
    ELSE [tmp |-> tmp, kdf |-> Append(kdf, tmp.bytes[(i % Len(tmp.bytes)) + 1])]

kdfStep(xy, st, i) ==
    IF st.tmp.panic THEN st
    ELSE IF i < Len(st.tmp.bytes)
         THEN [st EXCEPT !.kdf = Append(@, st.tmp.bytes[i + 1])]
         ELSE kdfAgain(hashOf(Append(xy, <<(i \div Len(st.tmp.bytes)) % 256>>)),
                       st.kdf, i)

\* where the rounds from .. to-1 are cut in two: at the first round that
\* hashes again, and in the middle elsewhere
kdfCut(from, to) == IF from < Size /\ Size < to THEN Size ELSE (from + to) \div 2

RECURSIVE kdfLoop(_, _, _, _)
\* the key derivation loop of Encrypt and Decrypt (the same text in both):
\* rounds i = from .. to-1, the range cut in two until it is one round
kdfLoop(xy, st, from, to) ==
    IF from >= to \/ Len(st.kdf) < 0 THEN st
    ELSE IF to - from = 1 THEN kdfStep(xy, st, from)
    ELSE kdfLoop(xy, kdfLoop(xy, st, from, kdfCut(from, to)), kdfCut(from, to), to)

kdfEnd(st) == IF st.tmp.panic THEN Panic ELSE Returned(st.kdf)

keyDerivation(x2Bytes, y2Bytes, klen) ==
    kdfEnd(kdfLoop(<<x2Bytes, y2Bytes>>,
                   [tmp |-> hashOf(<<x2Bytes, y2Bytes>>), kdf |-> <<>>], 0, klen))

\* Encrypt from C3 on: C = 0x04 || x1 || y1 || C2 || C3
encryptEnd(c1, c2, c3) ==
    IF c3.panic THEN Panicked
    ELSE Ok(<<4>> \o FillBytes(c1[1], ByteLen) \o FillBytes(c1[2], ByteLen)
                  \o c2 \o c3.bytes)

\* Encrypt from C2 = M xor t on
encryptC2(plaintext, c1, x2Bytes, y2Bytes, t) ==
    IF t.panic THEN Panicked
    ELSE encryptEnd(c1, XORBytes(Zeros(Len(plaintext)), plaintext, t.bytes),
                    hashOf(<<x2Bytes, plaintext, y2Bytes>>))

\* Encrypt from the shared point (x2, y2) = k * PB on
encryptShared(plaintext, c1, x2Bytes, y2Bytes) ==
    encryptC2(plaintext, c1, x2Bytes, y2Bytes,
              keyDerivation(x2Bytes, y2Bytes, Len(plaintext)))

encryptPoints(plaintext, c1, s2) ==
    encryptShared(plaintext, c1, FillBytes(s2[1], ByteLen), FillBytes(s2[2], ByteLen))

\* SM2.Encrypt, with k what randFieldElement returned
Encrypt(pub, plaintext, k) ==
    encryptPoints(IF Len(plaintext) = 0 THEN <<0>> ELSE plaintext,
                  ScalarBaseMult(BigBytes(k)),
                  ScalarMult(pub.X, pub.Y, BigBytes(k)))

\* Decrypt from the comparison of C3 on
decryptEnd(plaintext, c3, receivedC3) ==
    IF c3.panic THEN Panicked
    ELSE IF c3.bytes # receivedC3 THEN Fail(ErrDecryptionFailed)
    ELSE IF Len(plaintext) = 1 /\ plaintext[1] = 0 THEN Ok(<<>>)
    ELSE Ok(plaintext)

\* Decrypt from M = C2 xor t on
decryptC2(plaintext, x2Bytes, y2Bytes, receivedC3) ==
    decryptEnd(plaintext, hashOf(<<x2Bytes, plaintext, y2Bytes>>), receivedC3)

decryptKdf(c2, x2Bytes, y2Bytes, receivedC3, t) ==
    IF t.panic THEN Panicked
    ELSE decryptC2(XORBytes(Zeros(Len(c2)), c2, t.bytes), x2Bytes, y2Bytes,
                   receivedC3)

\* Decrypt from the shared point (x2, y2) = d * C1 on
decryptShared(ciphertext, c2Len, x2Bytes, y2Bytes) ==
    IF c2Len <= 0 THEN Fail(ErrInvalidCiphertext)
    ELSE decryptKdf(Slice(ciphertext, 1 + 2 * ByteLen, 1 + 2 * ByteLen + c2Len),
                    x2Bytes, y2Bytes,
                    Slice(ciphertext, 1 + 2 * ByteLen + c2Len, Len(ciphertext)),
                    keyDerivation(x2Bytes, y2Bytes, c2Len))

decryptPoint(priv, ciphertext, x1, y1) ==
    IF ~IsOnCurve(x1, y1) THEN Fail(ErrC1NotOnCurve)
    ELSE decryptShared(ciphertext, Len(ciphertext) - (1 + 2 * ByteLen + Size),
                       FillBytes(ScalarMult(x1, y1, BigBytes(priv.D))[1], ByteLen),
                       FillBytes(ScalarMult(x1, y1, BigBytes(priv.D))[2], ByteLen))

\* SM2.Decrypt
Decrypt(priv, ciphertext) ==
    IF Len(ciphertext) < 1 + 2 * ByteLen + Size THEN Fail(ErrInvalidCiphertext)
    ELSE IF ciphertext[1] # 4 THEN Fail(ErrPointFormat)
    ELSE decryptPoint(priv, ciphertext,
                      SetBytes(Slice(ciphertext, 1, 1 + ByteLen)),
                      SetBytes(Slice(ciphertext, 1 + ByteLen, 1 + 2 * ByteLen)))

\* "r = 0: draw another k" alone
signAgainOnZero(r, k) == r = 0

\* Sign: "r = 0 or r + k = n: draw another k"
signAgain(r, k) == r = 0 \/ r + k = sm2P256Curve.N

\* the signature returned whatever s is
signValueWithZero(r, sValue) ==
    Ok(PadLeft(BigBytes(r), ByteLen) \o PadLeft(BigBytes(sValue), ByteLen))

\* Sign from s = (1 + d)^-1 * (k - r*d) mod n on; Mul on the nil that
\* ModInverse returned panics
signValue(r, sValue) ==
    IF sValue = 0 THEN Retry
    ELSE Ok(PadLeft(BigBytes(r), ByteLen) \o PadLeft(BigBytes(sValue), ByteLen))

signInverse(priv, r, k, dPlusOneInv) ==
    IF dPlusOneInv.nil THEN Panicked
    ELSE signValue(r, (dPlusOneInv.val
                       * ((k - ((r * priv.D) % sm2P256Curve.N)) % sm2P256Curve.N))
                      % sm2P256Curve.N)

signDrawn(priv, r, k) ==
    IF signAgain(r, k) THEN Retry
    ELSE signInverse(priv, r, k, ModInverse(1 + priv.D, sm2P256Curve.N))

\* SM2.Sign up to its return or its next "goto retry", with k what
\* randFieldElement returned
Sign(priv, digest, k) ==
    IF priv.D < 1 \/ priv.D > sm2P256Curve.N - 1 THEN Fail(ErrInvalidPrivateKey)
    ELSE signDrawn(priv,
                   (SetBytes(digest) + ScalarBaseMult(BigBytes(k))[1])
                       % sm2P256Curve.N,
                   k)

\* Verify from the point (x1, y1) = s*G + t*P on
verifyPoint(e, r, sG, tP) ==
    (e + Add(sG[1], sG[2], tP[1], tP[2])[1]) % sm2P256Curve.N = r

verifyValues(pub, e, r, sValue) ==
    IF r <= 0 \/ r >= sm2P256Curve.N \/ sValue <= 0 \/ sValue >= sm2P256Curve.N
    THEN FALSE
    ELSE IF (r + sValue) % sm2P256Curve.N = 0 THEN FALSE
    ELSE verifyPoint(e, r, ScalarBaseMult(BigBytes(sValue)),
                     ScalarMult(pub.X, pub.Y,
                                BigBytes((r + sValue) % sm2P256Curve.N)))

\* SM2.Verify
Verify(pub, digest, signature) ==
    IF ~IsOnCurve(pub.X, pub.Y) THEN FALSE
    ELSE IF Len(signature) # SignatureSize THEN FALSE
    ELSE verifyValues(pub, SetBytes(digest),
                      SetBytes(Slice(signature, 0, ByteLen)),
                      SetBytes(Slice(signature, ByteLen, Len(signature))))

\* PublicKey.EncodePublicKey: 0x04, X.Bytes(), Y.Bytes()
EncodePublicKey(pub) == <<4>> \o BigBytes(pub.X) \o BigBytes(pub.Y)

\* the private key object of d: D and the embedded public key d * G
PrivateKey(d) ==
    [D |-> d, X |-> ScalarBaseMult(BigBytes(d))[1],
              Y |-> ScalarBaseMult(BigBytes(d))[2]]

\* the embedded public key of a private key
PublicKey(priv) == [X |-> priv.X, Y |-> priv.Y]

\* SM2.DecodePrivateKey
DecodePrivateKey(data) ==
    IF Len(data) = 0 THEN Fail(ErrInvalidPrivateKey)
    ELSE IF SetBytes(data) < 1 \/ SetBytes(data) > sm2P256Curve.N - 1
         THEN Fail(ErrInvalidPrivateKey)
    ELSE Ok(PrivateKey(SetBytes(data)))

\* SM2.DecodePublicKey
decodePoint(x, y) ==
    IF ~IsOnCurve(x, y) THEN Fail(ErrInvalidPublicKey)
    ELSE Ok([X |-> x, Y |-> y])

DecodePublicKey(data) ==
    IF Len(data) < PublicKeySize THEN Fail(ErrInvalidPublicKey)
    ELSE IF data[1] # 4 THEN Fail(ErrInvalidPublicKey)
    ELSE IF Len(data) < 1 + 2 * ByteLen THEN Fail(ErrInvalidPublicKey)
    ELSE decodePoint(SetBytes(Slice(data, 1, 1 + ByteLen)),
                     SetBytes(Slice(data, 1 + ByteLen, Len(data))))

(***************************************************************************)
(* RC4 (package rc4).  An instance r is [s, i, j]: the 256-byte state      *)
(* array and the two byte indices.                                         *)
(***************************************************************************)
MinKeySize == 1
MaxKeySize == 256
StateSize  == 256

ErrInvalidKeySize == "rc4_invalid_key_size"

\* &RC4{}
rc4Zero == [s |-> Zeros(StateSize), i |-> 0, j |-> 0]

\* "r.s[a], r.s[b] = r.s[b], r.s[a]" (a and b count from 0)
swap(s, a, b) == [s EXCEPT ![a + 1] = s[b + 1], ![b + 1] = s[a + 1]]

\* the swap of round i of the key loop, with j its new value
initSwap(st, i, j) == [s |-> swap(st.s, i, j), j |-> j]

\* round i of the key loop on st = [s, j]
initStep(st, key, i) ==
    initSwap(st, i, (st.j + st.s[i + 1] + key[(i % Len(key)) + 1]) % 256)

RECURSIVE initLoop(_, _, _, _)
\* rounds i = from .. to-1 of the key loop, the range halved until it is
\* one round
initLoop(st, key, from, to) ==
    IF Len(st.s) < 0 THEN st
    ELSE IF to - from = 1 THEN initStep(st, key, from)
    ELSE initLoop(initLoop(st, key, from, (from + to) \div 2), key,
                  (from + to) \div 2, to)

\* initState with the indices left as they are
initStateKeptIndices(r, key) ==
    [s |-> initLoop([s |-> Bytes([i \in 1..StateSize |-> i - 1]), j |-> 0],
                    key, 0, StateSize).s,
     i |-> r.i, j |-> r.j]

\* RC4.initState: the identity array, the key loop, i = j = 0
initState(r, key) ==
    [s |-> initLoop([s |-> Bytes([i \in 1..StateSize |-> i - 1]), j |-> 0],
                    key, 0, StateSize).s,
     i |-> 0, j |-> 0]

\* rc4.New: the instance, or nil and the error
rc4New(key) ==
    IF Len(key) < MinKeySize \/ Len(key) > MaxKeySize THEN Fail(ErrInvalidKeySize)
    ELSE Ok(initState(rc4Zero, key))

\* RC4.Reset: the error, and the instance after the call
rc4Reset(r, key) ==
    IF Len(key) < MinKeySize \/ Len(key) > MaxKeySize
    THEN [err |-> ErrInvalidKeySize, r |-> r]
    ELSE [err |-> NoError, r |-> initState(r, key)]

\* round k of crypt from the swap on: t and the output byte
cryptOut(st, k, s, i, j) ==
    [r      |-> [s |-> s, i |-> i, j |-> j],
     output |-> [st.output EXCEPT
                   ![k + 1] = Xor(@, s[((s[i + 1] + s[j + 1]) % 256) + 1])]]

\* round k of crypt from the new r.j on
cryptSwap(st, k, i, j) == cryptOut(st, k, swap(st.r.s, i, j), i, j)

\* round k of crypt from the new r.i on
cryptIndex(st, k, i) == cryptSwap(st, k, i, (st.r.j + st.r.s[i + 1]) % 256)

\* round k of crypt's loop on st = [r, output]
cryptStep(st, k) == cryptIndex(st, k, (st.r.i + 1) % 256)

RECURSIVE cryptLoop(_, _)
cryptLoop(st, k) ==
    IF k >= Len(st.output) THEN st
    ELSE cryptLoop(cryptStep(st, k), k + 1)

\* RC4.crypt: the output, and the instance after the call
crypt(r, data) == cryptLoop([r |-> r, output |-> data], 0)

\* RC4.Encrypt
rc4Encrypt(r, data) == crypt(r, data)

\* RC4.Decrypt
rc4Decrypt(r, data) == crypt(r, data)

(***************************************************************************)
(* RC5 (package rc5).  A word is four bytes, the most significant first;   *)
(* an instance is [rounds, wordSize, blockSize, keySize, subKeys].         *)
(***************************************************************************)
Rc5BlockSize    == 8
DefaultRounds   == 12
DefaultWordSize == 32
Rc5MinKeySize   == 1
Rc5MaxKeySize   == 255

Rc5ErrInvalidKeySize   == "rc5_invalid_key_size"
Rc5ErrInvalidBlockSize == "rc5_invalid_block_size"
ErrInvalidWordSize     == "rc5_invalid_word_size"
ErrInvalidRounds       == "rc5_invalid_rounds"

\* a - b modulo 2^32
WSub(a, b) == WAdd(a, WAdd(WNot(b), <<0, 0, 0, 1>>))

\* binary.LittleEndian.Uint32 of the four bytes of b from offset at on
LittleEndianUint32(b, at) == <<b[at + 4], b[at + 3], b[at + 2], b[at + 1]>>

\* binary.LittleEndian.PutUint32 of A and then of B
LittleEndianPut(A, B) ==
    <<A[4], A[3], A[2], A[1], B[4], B[3], B[2], B[1]>>

\* the low five bits of a word: x % 32
Low5(x) == x[4] % 32

\* 0xB7E15163 and 0x9E3779B9
Rc5P == <<183, 225, 81, 99>>
Rc5Q == <<158, 55, 121, 185>>

\* max of rc5.go
max(a, b) == IF a > b THEN a ELSE b

RECURSIVE subKeysFill(_, _, _)
\* "r.subKeys[i] = r.subKeys[i-1] + Q" for i = from .. to-1
subKeysFill(s, from, to) ==
    IF Len(s) < 0 THEN s
    ELSE IF to <= from THEN s
    ELSE IF to - from = 1 THEN [s EXCEPT ![from + 1] = WAdd(s[from], Rc5Q)]
    ELSE subKeysFill(subKeysFill(s, from, (from + to) \div 2),
                     (from + to) \div 2, to)

\* uint32(key[i]) << shift, for shift = (i % 4) * 8
keyByteShifted(b, i) == [<<0, 0, 0, 0>> EXCEPT ![4 - (i % 4)] = b]

RECURSIVE keyWords(_, _, _, _)
\* "c[idx] = c[idx] | (uint32(key[i]) << shift)" for i = from .. to-1
keyWords(c, key, from, to) ==
    IF Len(c) < 0 THEN c
    ELSE IF to <= from THEN c
    ELSE IF to - from = 1
    THEN [c EXCEPT ![(from \div 4) + 1] = WOr(@, keyByteShifted(key[from + 1], from))]
    ELSE keyWords(keyWords(c, key, from, (from + to) \div 2), key,
                  (from + to) \div 2, to)

\* the second half of a mixing round: b, c[j] and j, with a the new a
mixC(st, a, b) ==
    [s |-> [st.s EXCEPT ![st.i + 1] = RotateLeft32(a, 3)],
     c |-> [st.c EXCEPT ![st.j + 1] = RotateLeft32(b, Low5(WAdd(a, b)))],
     a |-> a, b |-> b,
     i |-> (st.i + 1) % Len(st.s), j |-> (st.j + 1) % Len(st.c)]

\* a mixing round from the new a on
mixB(st, a) == mixC(st, a, WAdd(WAdd(st.c[st.j + 1], a), st.b))

\* one round of the mixing loop on st = [s, c, a, b, i, j]
mixStep(st) == mixB(st, WAdd(WAdd(st.s[st.i + 1], st.a), st.b))

RECURSIVE mixLoop(_, _)
\* n rounds of the mixing loop
mixLoop(st, n) ==
    IF Len(st.s) < 0 THEN st
    ELSE IF n = 0 THEN st
    ELSE IF n = 1 THEN mixStep(st)
    ELSE mixLoop(mixLoop(st, n \div 2), n - (n \div 2))

\* the mixing loop from the word array c of the key on
expandMix(s, c) ==
    mixLoop([s |-> s, c |-> c, a |-> <<0, 0, 0, 0>>, b |-> <<0, 0, 0, 0>>,
             i |-> 0, j |-> 0], 3 * max(Len(s), Len(c))).s

\* RC5.expandKey: the subKeys of an instance of n sub-keys and keySize
\* bytes of key
rc5ExpandKey(n, keySize, key) ==
    expandMix(subKeysFill([i \in 1..n |-> Rc5P], 1, n),
              keyWords([i \in 1..((keySize + 3) \div 4) |-> <<0, 0, 0, 0>>],
                       key, 0, keySize))

\* rc5.NewWithParams: the instance, or nil and the error
NewWithParams(key, rnds, wordSize) ==
    IF Len(key) < Rc5MinKeySize \/ Len(key) > Rc5MaxKeySize
    THEN Fail(Rc5ErrInvalidKeySize)
    ELSE IF rnds < 1 \/ rnds > 255 THEN Fail(ErrInvalidRounds)
    ELSE IF wordSize # 32 THEN Fail(ErrInvalidWordSize)
    ELSE Ok([rounds |-> rnds, wordSize |-> wordSize,
             blockSize |-> (wordSize \div 8) * 2, keySize |-> Len(key),
             subKeys |-> rc5ExpandKey(2 * (rnds + 1), Len(key), key)])

\* rc5.New
rc5New(key) == NewWithParams(key, DefaultRounds, DefaultWordSize)

\* the second half of round i of Encrypt, with A its new value
encryptB(r, st, i, A) ==
    [A |-> A,
     B |-> WAdd(RotateLeft32(WXor(st.B, A), Low5(A)), r.subKeys[2 * i + 2])]

\* round i of Encrypt without the sub-key of A
encryptRoundNoKey(r, st, i) ==
    encryptB(r, st, i, RotateLeft32(WXor(st.A, st.B), Low5(st.B)))

\* round i of Encrypt on st = [A, B]
encryptRound(r, st, i) ==
    encryptB(r, st, i,
             WAdd(RotateLeft32(WXor(st.A, st.B), Low5(st.B)), r.subKeys[2 * i + 1]))

RECURSIVE encryptRounds(_, _, _, _)
\* rounds from .. to of Encrypt
encryptRounds(r, st, from, to) ==
    IF Len(st.A) < 0 THEN st
    ELSE IF from = to THEN encryptRound(r, st, from)
    ELSE encryptRounds(r, encryptRounds(r, st, from, (from + to) \div 2),
                       ((from + to) \div 2) + 1, to)

\* the blk written back from st = [A, B]
rc5Result(st) == Ok(LittleEndianPut(st.A, st.B))

\* RC5.Encrypt
rc5Encrypt(r, blk) ==
    IF Len(blk) # r.blockSize THEN Fail(Rc5ErrInvalidBlockSize)
    ELSE IF r.wordSize # 32 THEN Fail(ErrInvalidWordSize)
    ELSE rc5Result(encryptRounds(r,
             [A |-> WAdd(LittleEndianUint32(blk, 0), r.subKeys[1]),
              B |-> WAdd(LittleEndianUint32(blk, 4), r.subKeys[2])],
             1, r.rounds))

\* the second half of round i of Decrypt, with B its new value
decryptA(r, st, i, B) ==
    [A |-> WXor(RotateLeft32(WSub(st.A, r.subKeys[2 * i + 1]), 0 - Low5(B)), B),
     B |-> B]

\* round i of Decrypt on st = [A, B]
decryptRound(r, st, i) ==
    decryptA(r, st, i,
             WXor(RotateLeft32(WSub(st.B, r.subKeys[2 * i + 2]), 0 - Low5(st.A)), st.A))

RECURSIVE decryptRounds(_, _, _, _)
\* rounds from, from - 1, .. to of Decrypt
decryptRounds(r, st, from, to) ==
    IF Len(st.A) < 0 THEN st
    ELSE IF from = to THEN decryptRound(r, st, from)
    ELSE decryptRounds(r, decryptRounds(r, st, from, ((from + to) \div 2) + 1),
                       (from + to) \div 2, to)

\* Decrypt after the rounds: the first two sub-keys taken off
rc5DecryptEnd(r, st) ==
    rc5Result([A |-> WSub(st.A, r.subKeys[1]), B |-> WSub(st.B, r.subKeys[2])])

\* RC5.Decrypt
rc5Decrypt(r, blk) ==
    IF Len(blk) # r.blockSize THEN Fail(Rc5ErrInvalidBlockSize)
    ELSE IF r.wordSize # 32 THEN Fail(ErrInvalidWordSize)
    ELSE rc5DecryptEnd(r, decryptRounds(r,
             [A |-> LittleEndianUint32(blk, 0),
              B |-> LittleEndianUint32(blk, 4)],
             r.rounds, 1))

(***************************************************************************)
(* Twofish (package twofish).  An instance t is [k, s, keySize]: the 40    *)
(* round keys, the four S-boxes and the key length.                        *)
(***************************************************************************)
TwofishBlockSize == 16
KeySize128 == 16
KeySize192 == 24
KeySize256 == 32

TwofishErrInvalidKeySize   == "twofish_invalid_key_size"
TwofishErrInvalidBlockSize == "twofish_invalid_block_size"

\* bytesToUint32 of the four bytes of b from offset at on (big-endian)
bytesToUint32(b, at) == <<b[at + 1], b[at + 2], b[at + 3], b[at + 4]>>

\* uint32ToBytes of four words into the 16 bytes of the result
uint32ToBytes(x0, x1, x2, x3) == x0 \o x1 \o x2 \o x3

\* uint32(b) for a byte b
WordOfByte(b) == <<0, 0, 0, b>>

\* Twofish.g0: the S-boxes on the bytes of x from the lowest on
g0(t, x) ==
    WordOfByte(Xor(Xor(t.s[1][x[4] + 1], t.s[2][x[3] + 1]),
                   Xor(t.s[3][x[2] + 1], t.s[4][x[1] + 1])))

\* Twofish.g1: the S-boxes on the bytes of x from the second lowest on
g1(t, x) ==
    WordOfByte(Xor(Xor(t.s[1][x[3] + 1], t.s[2][x[2] + 1]),
                   Xor(t.s[3][x[1] + 1], t.s[4][x[4] + 1])))

RECURSIVE keyXor(_, _, _)
\* "t.k[i] ^= uint32(key[j]) << ((j % 4) * 8)" for j from j0 on
keyXor(w, key, j0) ==
    IF j0 >= Len(key) THEN w
    ELSE keyXor([w EXCEPT ![4 - (j0 % 4)] = Xor(@, key[j0 + 1])], key, j0 + 1)

\* Twofish.expandKey: the S-boxes and the round keys of the key
twofishExpandKey(key) ==
    [s |-> [i \in 1..4 |->
              [j \in 1..256 |-> ((j - 1) * (i - 1) + key[((j - 1) % Len(key)) + 1]) % 256]],
     k |-> [i \in 1..40 |-> keyXor(<<i - 1, i - 1, i - 1, i - 1>>, key, 0)],
     keySize |-> Len(key)]

\* twofish.New: the instance, or nil and the error
twofishNew(key) ==
    IF Len(key) # KeySize128 /\ Len(key) # KeySize192 /\ Len(key) # KeySize256
    THEN Fail(TwofishErrInvalidKeySize)
    ELSE Ok(twofishExpandKey(key))

\* t0 + t1 + t.k[at] and t0 + 2*t1 + t.k[at + 1]
roundF0(t, t0, t1, at) == WAdd(WAdd(t0, t1), t.k[at + 1])
roundF1(t, t0, t1, at) == WAdd(WAdd(t0, WAdd(t1, t1)), t.k[at + 2])

\* one round of Encrypt: (a, b) are the words read, (c, d) the words written
encryptHalf(t, a, b, c, d, at) ==
    [c |-> RotateLeft32(WXor(c, roundF0(t, g0(t, a), g1(t, b), at)), 31),
     d |-> WXor(RotateLeft32(d, 1), roundF1(t, g0(t, a), g1(t, b), at))]

\* the second round of a pass of the loop of Encrypt, with w2 and w3 new
encryptSecond(t, w, h, at) ==
    [w0 |-> encryptHalf(t, h.c, h.d, w.w0, w.w1, at + 2).c,
     w1 |-> encryptHalf(t, h.c, h.d, w.w0, w.w1, at + 2).d,
     w2 |-> h.c, w3 |-> h.d]

\* one pass of the loop of Encrypt on w = [w0, w1, w2, w3], k = at
encryptPass(t, w, at) ==
    encryptSecond(t, w, encryptHalf(t, w.w0, w.w1, w.w2, w.w3, at), at)

RECURSIVE encryptPasses(_, _, _)
\* the loop of Encrypt from k = at on
encryptPasses(t, w, at) ==
    IF Len(w.w0) < 0 THEN w
    ELSE IF at > 36 THEN w
    ELSE encryptPasses(t, encryptPass(t, w, at), at + 4)

\* the input whitening of Encrypt, the output whitening of Decrypt
whitenLow(t, w) ==
    [w0 |-> WXor(w.w0, t.k[1]), w1 |-> WXor(w.w1, t.k[2]),
     w2 |-> WXor(w.w2, t.k[3]), w3 |-> WXor(w.w3, t.k[4])]

\* the output whitening of Encrypt, the input whitening of Decrypt
whitenHigh(t, w) ==
    [w0 |-> WXor(w.w0, t.k[7]), w1 |-> WXor(w.w1, t.k[8]),
     w2 |-> WXor(w.w2, t.k[5]), w3 |-> WXor(w.w3, t.k[6])]

\* the result of Encrypt: w2, w3, w0, w1
encryptWritten(w) == Ok(uint32ToBytes(w.w2, w.w3, w.w0, w.w1))

\* Twofish.Encrypt
twofishEncrypt(t, blk) ==
    IF Len(blk) # TwofishBlockSize THEN Fail(TwofishErrInvalidBlockSize)
    ELSE encryptWritten(whitenHigh(t, encryptPasses(t,
             whitenLow(t, [w0 |-> bytesToUint32(blk, 0), w1 |-> bytesToUint32(blk, 4),
                           w2 |-> bytesToUint32(blk, 8), w3 |-> bytesToUint32(blk, 12)]),
             8)))

\* one round of Decrypt: (a, b) are the words read, (c, d) the words written
decryptHalf(t, a, b, c, d, at) ==
    [d |-> RotateLeft32(WXor(d, roundF1(t, g0(t, a), g1(t, b), at)), 31),
     c |-> WXor(RotateLeft32(c, 1), roundF0(t, g0(t, a), g1(t, b), at))]

\* the second round of a pass of the loop of Decrypt, with w0 and w1 new
decryptSecond(t, w, h, at) ==
    [w0 |-> h.c, w1 |-> h.d,
     w2 |-> decryptHalf(t, h.c, h.d, w.w2, w.w3, at).c,
     w3 |-> decryptHalf(t, h.c, h.d, w.w2, w.w3, at).d]

\* a pass of Decrypt without its first round
decryptPassKept(t, w, at) ==
    decryptSecond(t, w, [c |-> w.w0, d |-> w.w1], at)

\* one pass of the loop of Decrypt on w = [w0, w1, w2, w3], k = at
decryptPass(t, w, at) ==
    decryptSecond(t, w, decryptHalf(t, w.w2, w.w3, w.w0, w.w1, at + 2), at)

RECURSIVE decryptPasses(_, _, _)
\* the loop of Decrypt from k = at down
decryptPasses(t, w, at) ==
    IF Len(w.w0) < 0 THEN w
    ELSE IF at < 8 THEN w
    ELSE decryptPasses(t, decryptPass(t, w, at), at - 4)

\* the result of Decrypt: w0, w1, w2, w3
decryptWritten(w) == Ok(uint32ToBytes(w.w0, w.w1, w.w2, w.w3))

\* Twofish.Decrypt
twofishDecrypt(t, blk) ==
    IF Len(blk) # TwofishBlockSize THEN Fail(TwofishErrInvalidBlockSize)
    ELSE decryptWritten(whitenLow(t, decryptPasses(t,
             whitenHigh(t, [w2 |-> bytesToUint32(blk, 0), w3 |-> bytesToUint32(blk, 4),
                            w0 |-> bytesToUint32(blk, 8), w1 |-> bytesToUint32(blk, 12)]),
             36)))

\* package aes/internal: the S-box of FIPS-197 and its inverse, the products
\* by 2, 3, 9, 11, 13 and 14 in GF(2^8), and the round constants as words
aesInternal ==
    [ SBOX |->
       <<99, 124, 119, 123, 242, 107, 111, 197, 48, 1, 103, 43, 254, 215, 171, 118,
        202, 130, 201, 125, 250, 89, 71, 240, 173, 212, 162, 175, 156, 164, 114, 192,
        183, 253, 147, 38, 54, 63, 247, 204, 52, 165, 229, 241, 113, 216, 49, 21,
        4, 199, 35, 195, 24, 150, 5, 154, 7, 18, 128, 226, 235, 39, 178, 117,
        9, 131, 44, 26, 27, 110, 90, 160, 82, 59, 214, 179, 41, 227, 47, 132,
        83, 209, 0, 237, 32, 252, 177, 91, 106, 203, 190, 57, 74, 76, 88, 207,
        208, 239, 170, 251, 67, 77, 51, 133, 69, 249, 2, 127, 80, 60, 159, 168,
        81, 163, 64, 143, 146, 157, 56, 245, 188, 182, 218, 33, 16, 255, 243, 210,
        205, 12, 19, 236, 95, 151, 68, 23, 196, 167, 126, 61, 100, 93, 25, 115,
        96, 129, 79, 220, 34, 42, 144, 136, 70, 238, 184, 20, 222, 94, 11, 219,
        224, 50, 58, 10, 73, 6, 36, 92, 194, 211, 172, 98, 145, 149, 228, 121,
        231, 200, 55, 109, 141, 213, 78, 169, 108, 86, 244, 234, 101, 122, 174, 8,
        186, 120, 37, 46, 28, 166, 180, 198, 232, 221, 116, 31, 75, 189, 139, 138,
        112, 62, 181, 102, 72, 3, 246, 14, 97, 53, 87, 185, 134, 193, 29, 158,
        225, 248, 152, 17, 105, 217, 142, 148, 155, 30, 135, 233, 206, 85, 40, 223,
        140, 161, 137, 13, 191, 230, 66, 104, 65, 153, 45, 15, 176, 84, 187, 22>>,
      InvSBOX |->
       <<82, 9, 106, 213, 48, 54, 165, 56, 191, 64, 163, 158, 129, 243, 215, 251,
        124, 227, 57, 130, 155, 47, 255, 135, 52, 142, 67, 68, 196, 222, 233, 203,
        84, 123, 148, 50, 166, 194, 35, 61, 238, 76, 149, 11, 66, 250, 195, 78,
        8, 46, 161, 102, 40, 217, 36, 178, 118, 91, 162, 73, 109, 139, 209, 37,
        114, 248, 246, 100, 134, 104, 152, 22, 212, 164, 92, 204, 93, 101, 182, 146,
        108, 112, 72, 80, 253, 237, 185, 218, 94, 21, 70, 87, 167, 141, 157, 132,
        144, 216, 171, 0, 140, 188, 211, 10, 247, 228, 88, 5, 184, 179, 69, 6,
        208, 44, 30, 143, 202, 63, 15, 2, 193, 175, 189, 3, 1, 19, 138, 107,
        58, 145, 17, 65, 79, 103, 220, 234, 151, 242, 207, 206, 240, 180, 230, 115,
        150, 172, 116, 34, 231, 173, 53, 133, 226, 249, 55, 232, 28, 117, 223, 110,
        71, 241, 26, 113, 29, 41, 197, 137, 111, 183, 98, 14, 170, 24, 190, 27,
        252, 86, 62, 75, 198, 210, 121, 32, 154, 219, 192, 254, 120, 205, 90, 244,
        31, 221, 168, 51, 136, 7, 199, 49, 177, 18, 16, 89, 39, 128, 236, 95,
        96, 81, 127, 169, 25, 181, 74, 13, 45, 229, 122, 159, 147, 201, 156, 239,
        160, 224, 59, 77, 174, 42, 245, 176, 200, 235, 187, 60, 131, 83, 153, 97,
        23, 43, 4, 126, 186, 119, 214, 38, 225, 105, 20, 99, 85, 33, 12, 125>>,
      MUL_2 |->
       <<0, 2, 4, 6, 8, 10, 12, 14, 16, 18, 20, 22, 24, 26, 28, 30,
        32, 34, 36, 38, 40, 42, 44, 46, 48, 50, 52, 54, 56, 58, 60, 62,
        64, 66, 68, 70, 72, 74, 76, 78, 80, 82, 84, 86, 88, 90, 92, 94,
        96, 98, 100, 102, 104, 106, 108, 110, 112, 114, 116, 118, 120, 122, 124, 126,
        128, 130, 132, 134, 136, 138, 140, 142, 144, 146, 148, 150, 152, 154, 156, 158,
        160, 162, 164, 166, 168, 170, 172, 174, 176, 178, 180, 182, 184, 186, 188, 190,
        192, 194, 196, 198, 200, 202, 204, 206, 208, 210, 212, 214, 216, 218, 220, 222,
        224, 226, 228, 230, 232, 234, 236, 238, 240, 242, 244, 246, 248, 250, 252, 254,
        27, 25, 31, 29, 19, 17, 23, 21, 11, 9, 15, 13, 3, 1, 7, 5,
        59, 57, 63, 61, 51, 49, 55, 53, 43, 41, 47, 45, 35, 33, 39, 37,
        91, 89, 95, 93, 83, 81, 87, 85, 75, 73, 79, 77, 67, 65, 71, 69,
        123, 121, 127, 125, 115, 113, 119, 117, 107, 105, 111, 109, 99, 97, 103, 101,
        155, 153, 159, 157, 147, 145, 151, 149, 139, 137, 143, 141, 131, 129, 135, 133,
        187, 185, 191, 189, 179, 177, 183, 181, 171, 169, 175, 173, 163, 161, 167, 165,
        219, 217, 223, 221, 211, 209, 215, 213, 203, 201, 207, 205, 195, 193, 199, 197,
        251, 249, 255, 253, 243, 241, 247, 245, 235, 233, 239, 237, 227, 225, 231, 229>>,
      MUL_3 |->
       <<0, 3, 6, 5, 12, 15, 10, 9, 24, 27, 30, 29, 20, 23, 18, 17,
        48, 51, 54, 53, 60, 63, 58, 57, 40, 43, 46, 45, 36, 39, 34, 33,
        96, 99, 102, 101, 108, 111, 106, 105, 120, 123, 126, 125, 116, 119, 114, 113,
        80, 83, 86, 85, 92, 95, 90, 89, 72, 75, 78, 77, 68, 71, 66, 65,
        192, 195, 198, 197, 204, 207, 202, 201, 216, 219, 222, 221, 212, 215, 210, 209,
        240, 243, 246, 245, 252, 255, 250, 249, 232, 235, 238, 237, 228, 231, 226, 225,
        160, 163, 166, 165, 172, 175, 170, 169, 184, 187, 190, 189, 180, 183, 178, 177,
        144, 147, 150, 149, 156, 159, 154, 153, 136, 139, 142, 141, 132, 135, 130, 129,
        155, 152, 157, 158, 151, 148, 145, 146, 131, 128, 133, 134, 143, 140, 137, 138,
        171, 168, 173, 174, 167, 164, 161, 162, 179, 176, 181, 182, 191, 188, 185, 186,
        251, 248, 253, 254, 247, 244, 241, 242, 227, 224, 229, 230, 239, 236, 233, 234,
        203, 200, 205, 206, 199, 196, 193, 194, 211, 208, 213, 214, 223, 220, 217, 218,
        91, 88, 93, 94, 87, 84, 81, 82, 67, 64, 69, 70, 79, 76, 73, 74,
        107, 104, 109, 110, 103, 100, 97, 98, 115, 112, 117, 118, 127, 124, 121, 122,
        59, 56, 61, 62, 55, 52, 49, 50, 35, 32, 37, 38, 47, 44, 41, 42,
        11, 8, 13, 14, 7, 4, 1, 2, 19, 16, 21, 22, 31, 28, 25, 26>>,
      MUL_9 |->
       <<0, 9, 18, 27, 36, 45, 54, 63, 72, 65, 90, 83, 108, 101, 126, 119,
        144, 153, 130, 139, 180, 189, 166, 175, 216, 209, 202, 195, 252, 245, 238, 231,
        59, 50, 41, 32, 31, 22, 13, 4, 115, 122, 97, 104, 87, 94, 69, 76,
        171, 162, 185, 176, 143, 134, 157, 148, 227, 234, 241, 248, 199, 206, 213, 220,
        118, 127, 100, 109, 82, 91, 64, 73, 62, 55, 44, 37, 26, 19, 8, 1,
        230, 239, 244, 253, 194, 203, 208, 217, 174, 167, 188, 181, 138, 131, 152, 145,
        77, 68, 95, 86, 105, 96, 123, 114, 5, 12, 23, 30, 33, 40, 51, 58,
        221, 212, 207, 198, 249, 240, 235, 226, 149, 156, 135, 142, 177, 184, 163, 170,
        236, 229, 254, 247, 200, 193, 218, 211, 164, 173, 182, 191, 128, 137, 146, 155,
        124, 117, 110, 103, 88, 81, 74, 67, 52, 61, 38, 47, 16, 25, 2, 11,
        215, 222, 197, 204, 243, 250, 225, 232, 159, 150, 141, 132, 187, 178, 169, 160,
        71, 78, 85, 92, 99, 106, 113, 120, 15, 6, 29, 20, 43, 34, 57, 48,
        154, 147, 136, 129, 190, 183, 172, 165, 210, 219, 192, 201, 246, 255, 228, 237,
        10, 3, 24, 17, 46, 39, 60, 53, 66, 75, 80, 89, 102, 111, 116, 125,
        161, 168, 179, 186, 133, 140, 151, 158, 233, 224, 251, 242, 205, 196, 223, 214,
        49, 56, 35, 42, 21, 28, 7, 14, 121, 112, 107, 98, 93, 84, 79, 70>>,
      MUL_11 |->
       <<0, 11, 22, 29, 44, 39, 58, 49, 88, 83, 78, 69, 116, 127, 98, 105,
        176, 187, 166, 173, 156, 151, 138, 129, 232, 227, 254, 245, 196, 207, 210, 217,
        123, 112, 109, 102, 87, 92, 65, 74, 35, 40, 53, 62, 15, 4, 25, 18,
        203, 192, 221, 214, 231, 236, 241, 250, 147, 152, 133, 142, 191, 180, 169, 162,
        246, 253, 224, 235, 218, 209, 204, 199, 174, 165, 184, 179, 130, 137, 148, 159,
        70, 77, 80, 91, 106, 97, 124, 119, 30, 21, 8, 3, 50, 57, 36, 47,
        141, 134, 155, 144, 161, 170, 183, 188, 213, 222, 195, 200, 249, 242, 239, 228,
        61, 54, 43, 32, 17, 26, 7, 12, 101, 110, 115, 120, 73, 66, 95, 84,
        247, 252, 225, 234, 219, 208, 205, 198, 175, 164, 185, 178, 131, 136, 149, 158,
        71, 76, 81, 90, 107, 96, 125, 118, 31, 20, 9, 2, 51, 56, 37, 46,
        140, 135, 154, 145, 160, 171, 182, 189, 212, 223, 194, 201, 248, 243, 238, 229,
        60, 55, 42, 33, 16, 27, 6, 13, 100, 111, 114, 121, 72, 67, 94, 85,
        1, 10, 23, 28, 45, 38, 59, 48, 89, 82, 79, 68, 117, 126, 99, 104,
        177, 186, 167, 172, 157, 150, 139, 128, 233, 226, 255, 244, 197, 206, 211, 216,
        122, 113, 108, 103, 86, 93, 64, 75, 34, 41, 52, 63, 14, 5, 24, 19,
        202, 193, 220, 215, 230, 237, 240, 251, 146, 153, 132, 143, 190, 181, 168, 163>>,
      MUL_13 |->
       <<0, 13, 26, 23, 52, 57, 46, 35, 104, 101, 114, 127, 92, 81, 70, 75,
        208, 221, 202, 199, 228, 233, 254, 243, 184, 181, 162, 175, 140, 129, 150, 155,
        187, 182, 161, 172, 143, 130, 149, 152, 211, 222, 201, 196, 231, 234, 253, 240,
        107, 102, 113, 124, 95, 82, 69, 72, 3, 14, 25, 20, 55, 58, 45, 32,
        109, 96, 119, 122, 89, 84, 67, 78, 5, 8, 31, 18, 49, 60, 43, 38,
        189, 176, 167, 170, 137, 132, 147, 158, 213, 216, 207, 194, 225, 236, 251, 246,
        214, 219, 204, 193, 226, 239, 248, 245, 190, 179, 164, 169, 138, 135, 144, 157,
        6, 11, 28, 17, 50, 63, 40, 37, 110, 99, 116, 121, 90, 87, 64, 77,
        218, 215, 192, 205, 238, 227, 244, 249, 178, 191, 168, 165, 134, 139, 156, 145,
        10, 7, 16, 29, 62, 51, 36, 41, 98, 111, 120, 117, 86, 91, 76, 65,
        97, 108, 123, 118, 85, 88, 79, 66, 9, 4, 19, 30, 61, 48, 39, 42,
        177, 188, 171, 166, 133, 136, 159, 146, 217, 212, 195, 206, 237, 224, 247, 250,
        183, 186, 173, 160, 131, 142, 153, 148, 223, 210, 197, 200, 235, 230, 241, 252,
        103, 106, 125, 112, 83, 94, 73, 68, 15, 2, 21, 24, 59, 54, 33, 44,
        12, 1, 22, 27, 56, 53, 34, 47, 100, 105, 126, 115, 80, 93, 74, 71,
        220, 209, 198, 203, 232, 229, 242, 255, 180, 185, 174, 163, 128, 141, 154, 151>>,
      MUL_14 |->
       <<0, 14, 28, 18, 56, 54, 36, 42, 112, 126, 108, 98, 72, 70, 84, 90,
        224, 238, 252, 242, 216, 214, 196, 202, 144, 158, 140, 130, 168, 166, 180, 186,
        219, 213, 199, 201, 227, 237, 255, 241, 171, 165, 183, 185, 147, 157, 143, 129,
        59, 53, 39, 41, 3, 13, 31, 17, 75, 69, 87, 89, 115, 125, 111, 97,
        173, 163, 177, 191, 149, 155, 137, 135, 221, 211, 193, 207, 229, 235, 249, 247,
        77, 67, 81, 95, 117, 123, 105, 103, 61, 51, 33, 47, 5, 11, 25, 23,
        118, 120, 106, 100, 78, 64, 82, 92, 6, 8, 26, 20, 62, 48, 34, 44,
        150, 152, 138, 132, 174, 160, 178, 188, 230, 232, 250, 244, 222, 208, 194, 204,
        65, 79, 93, 83, 121, 119, 101, 107, 49, 63, 45, 35, 9, 7, 21, 27,
        161, 175, 189, 179, 153, 151, 133, 139, 209, 223, 205, 195, 233, 231, 245, 251,
        154, 148, 134, 136, 162, 172, 190, 176, 234, 228, 246, 248, 210, 220, 206, 192,
        122, 116, 102, 104, 66, 76, 94, 80, 10, 4, 22, 24, 50, 60, 46, 32,
        236, 226, 240, 254, 212, 218, 200, 198, 156, 146, 128, 142, 164, 170, 184, 182,
        12, 2, 16, 30, 52, 58, 40, 38, 124, 114, 96, 110, 68, 74, 88, 86,
        55, 57, 43, 37, 15, 1, 19, 29, 71, 73, 91, 85, 127, 113, 99, 109,
        215, 217, 203, 197, 239, 225, 243, 253, 167, 169, 187, 181, 159, 145, 131, 141>>,
      RCON |->
       <<<<1, 0, 0, 0>>, <<2, 0, 0, 0>>, <<4, 0, 0, 0>>, <<8, 0, 0, 0>>,
        <<16, 0, 0, 0>>, <<32, 0, 0, 0>>, <<64, 0, 0, 0>>, <<128, 0, 0, 0>>,
        <<27, 0, 0, 0>>, <<54, 0, 0, 0>>>> ]

\* package des/internal: the permutations and the S-boxes of FIPS 46-3
desInternal ==
    [ IP |->
       <<58, 50, 42, 34, 26, 18, 10, 2, 60, 52, 44, 36, 28, 20, 12, 4,
        62, 54, 46, 38, 30, 22, 14, 6, 64, 56, 48, 40, 32, 24, 16, 8,
        57, 49, 41, 33, 25, 17, 9, 1, 59, 51, 43, 35, 27, 19, 11, 3,
        61, 53, 45, 37, 29, 21, 13, 5, 63, 55, 47, 39, 31, 23, 15, 7>>,
      FP |->
       <<40, 8, 48, 16, 56, 24, 64, 32, 39, 7, 47, 15, 55, 23, 63, 31,
        38, 6, 46, 14, 54, 22, 62, 30, 37, 5, 45, 13, 53, 21, 61, 29,
        36, 4, 44, 12, 52, 20, 60, 28, 35, 3, 43, 11, 51, 19, 59, 27,
        34, 2, 42, 10, 50, 18, 58, 26, 33, 1, 41, 9, 49, 17, 57, 25>>,
      E |->
       <<32, 1, 2, 3, 4, 5, 4, 5, 6, 7, 8, 9, 8, 9, 10, 11,
        12, 13, 12, 13, 14, 15, 16, 17, 16, 17, 18, 19, 20, 21, 20, 21,
        22, 23, 24, 25, 24, 25, 26, 27, 28, 29, 28, 29, 30, 31, 32, 1>>,
      P |->
       <<16, 7, 20, 21, 29, 12, 28, 17, 1, 15, 23, 26, 5, 18, 31, 10,
        2, 8, 24, 14, 32, 27, 3, 9, 19, 13, 30, 6, 22, 11, 4, 25>>,
      PC1 |->
       <<57, 49, 41, 33, 25, 17, 9, 1, 58, 50, 42, 34, 26, 18, 10, 2,
        59, 51, 43, 35, 27, 19, 11, 3, 60, 52, 44, 36, 63, 55, 47, 39,
        31, 23, 15, 7, 62, 54, 46, 38, 30, 22, 14, 6, 61, 53, 45, 37,
        29, 21, 13, 5, 28, 20, 12, 4>>,
      PC2 |->
       <<14, 17, 11, 24, 1, 5, 3, 28, 15, 6, 21, 10, 23, 19, 12, 4,
        26, 8, 16, 7, 27, 20, 13, 2, 41, 52, 31, 37, 47, 55, 30, 40,
        51, 45, 33, 48, 44, 49, 39, 56, 34, 53, 46, 42, 50, 36, 29, 32>>,
      SBOXES |->
       <<<<14, 4, 13, 1, 2, 15, 11, 8, 3, 10, 6, 12, 5, 9, 0, 7,
        0, 15, 7, 4, 14, 2, 13, 1, 10, 6, 12, 11, 9, 5, 3, 8,
        4, 1, 14, 8, 13, 6, 2, 11, 15, 12, 9, 7, 3, 10, 5, 0,
        15, 12, 8, 2, 4, 9, 1, 7, 5, 11, 3, 14, 10, 0, 6, 13>>,
       <<15, 1, 8, 14, 6, 11, 3, 4, 9, 7, 2, 13, 12, 0, 5, 10,
        3, 13, 4, 7, 15, 2, 8, 14, 12, 0, 1, 10, 6, 9, 11, 5,
        0, 14, 7, 11, 10, 4, 13, 1, 5, 8, 12, 6, 9, 3, 2, 15,
        13, 8, 10, 1, 3, 15, 4, 2, 11, 6, 7, 12, 0, 5, 14, 9>>,
       <<10, 0, 9, 14, 6, 3, 15, 5, 1, 13, 12, 7, 11, 4, 2, 8,
        13, 7, 0, 9, 3, 4, 6, 10, 2, 8, 5, 14, 12, 11, 15, 1,
        13, 6, 4, 9, 8, 15, 3, 0, 11, 1, 2, 12, 5, 10, 14, 7,
        1, 10, 13, 0, 6, 9, 8, 7, 4, 15, 14, 3, 11, 5, 2, 12>>,
       <<7, 13, 14, 3, 0, 6, 9, 10, 1, 2, 8, 5, 11, 12, 4, 15,
        13, 8, 11, 5, 6, 15, 0, 3, 4, 7, 2, 12, 1, 10, 14, 9,
        10, 6, 9, 0, 12, 11, 7, 13, 15, 1, 3, 14, 5, 2, 8, 4,
        3, 15, 0, 6, 10, 1, 13, 8, 9, 4, 5, 11, 12, 7, 2, 14>>,
       <<2, 12, 4, 1, 7, 10, 11, 6, 8, 5, 3, 15, 13, 0, 14, 9,
        14, 11, 2, 12, 4, 7, 13, 1, 5, 0, 15, 10, 3, 9, 8, 6,
        4, 2, 1, 11, 10, 13, 7, 8, 15, 9, 12, 5, 6, 3, 0, 14,
        11, 8, 12, 7, 1, 14, 2, 13, 6, 15, 0, 9, 10, 4, 5, 3>>,
       <<12, 1, 10, 15, 9, 2, 6, 8, 0, 13, 3, 4, 14, 7, 5, 11,
        10, 15, 4, 2, 7, 12, 9, 5, 6, 1, 13, 14, 0, 11, 3, 8,
        9, 14, 15, 5, 2, 8, 12, 3, 7, 0, 4, 10, 1, 13, 11, 6,
        4, 3, 2, 12, 9, 5, 15, 10, 11, 14, 1, 7, 6, 0, 8, 13>>,
       <<4, 11, 2, 14, 15, 0, 8, 13, 3, 12, 9, 7, 5, 10, 6, 1,
        13, 0, 11, 7, 4, 9, 1, 10, 14, 3, 5, 12, 2, 15, 8, 6,
        1, 4, 11, 13, 12, 3, 7, 14, 10, 15, 6, 8, 0, 5, 9, 2,
        6, 11, 13, 8, 1, 4, 10, 7, 9, 5, 0, 15, 14, 2, 3, 12>>,
       <<13, 2, 8, 4, 6, 15, 11, 1, 10, 9, 3, 14, 5, 0, 12, 7,
        1, 15, 13, 8, 10, 3, 7, 4, 12, 5, 6, 11, 0, 14, 9, 2,
        7, 11, 4, 1, 9, 12, 14, 2, 0, 6, 10, 13, 15, 3, 5, 8,
        2, 1, 14, 7, 4, 10, 8, 13, 15, 12, 9, 0, 3, 5, 6, 11>>>> ]

\* package sm4/internal: the S-box, FK and CK of GB/T 32907
sm4Internal ==
    [ SBOX |->
       <<214, 144, 233, 254, 204, 225, 61, 183, 22, 182, 20, 194, 40, 251, 44, 5,
        43, 103, 154, 118, 42, 190, 4, 195, 170, 68, 19, 38, 73, 134, 6, 153,
        156, 66, 80, 244, 145, 239, 152, 122, 51, 84, 11, 67, 237, 207, 172, 98,
        228, 179, 28, 169, 201, 8, 232, 149, 128, 223, 148, 250, 117, 143, 63, 166,
        71, 7, 167, 252, 243, 115, 23, 186, 131, 89, 60, 25, 230, 133, 79, 168,
        104, 107, 129, 178, 113, 100, 218, 139, 248, 235, 15, 75, 112, 86, 157, 53,
        30, 36, 14, 94, 99, 88, 209, 162, 37, 34, 124, 59, 1, 33, 120, 135,
        212, 0, 70, 87, 159, 211, 39, 82, 76, 54, 2, 231, 160, 196, 200, 158,
        234, 191, 138, 210, 64, 199, 56, 181, 163, 247, 242, 206, 249, 97, 21, 161,
        224, 174, 93, 164, 155, 52, 26, 85, 173, 147, 50, 48, 245, 140, 177, 227,
        29, 246, 226, 46, 130, 102, 202, 96, 192, 41, 35, 171, 13, 83, 78, 111,
        213, 219, 55, 69, 222, 253, 142, 47, 3, 255, 106, 114, 109, 108, 91, 81,
        141, 27, 175, 146, 187, 221, 188, 127, 17, 217, 92, 65, 31, 16, 90, 216,
        10, 193, 49, 136, 165, 205, 123, 189, 45, 116, 208, 18, 184, 229, 180, 176,
        137, 105, 151, 74, 12, 150, 119, 126, 101, 185, 241, 9, 197, 110, 198, 132,
        24, 240, 125, 236, 58, 220, 77, 32, 121, 238, 95, 62, 215, 203, 57, 72>>,
      FK |->
       <<<<163, 177, 186, 198>>, <<86, 170, 51, 80>>, <<103, 125, 145, 151>>, <<178, 112, 34, 220>>>>,
      CK |->
       <<<<0, 7, 14, 21>>, <<28, 35, 42, 49>>, <<56, 63, 70, 77>>, <<84, 91, 98, 105>>,
        <<112, 119, 126, 133>>, <<140, 147, 154, 161>>, <<168, 175, 182, 189>>, <<196, 203, 210, 217>>,
        <<224, 231, 238, 245>>, <<252, 3, 10, 17>>, <<24, 31, 38, 45>>, <<52, 59, 66, 73>>,
        <<80, 87, 94, 101>>, <<108, 115, 122, 129>>, <<136, 143, 150, 157>>, <<164, 171, 178, 185>>,
        <<192, 199, 206, 213>>, <<220, 227, 234, 241>>, <<248, 255, 6, 13>>, <<20, 27, 34, 41>>,
        <<48, 55, 62, 69>>, <<76, 83, 90, 97>>, <<104, 111, 118, 125>>, <<132, 139, 146, 153>>,
        <<160, 167, 174, 181>>, <<188, 195, 202, 209>>, <<216, 223, 230, 237>>, <<244, 251, 2, 9>>,
        <<16, 23, 30, 37>>, <<44, 51, 58, 65>>, <<72, 79, 86, 93>>, <<100, 107, 114, 121>>>> ]

\* package blowfish/internal: the P-array and the four S-boxes, the hexadecimal
\* digits of the fraction of pi, as words
blowfishInternal ==
    [ PBox |->
       <<<<36, 63, 106, 136>>, <<133, 163, 8, 211>>, <<19, 25, 138, 46>>, <<3, 112, 115, 68>>,
        <<164, 9, 56, 34>>, <<41, 159, 49, 208>>, <<8, 46, 250, 152>>, <<236, 78, 108, 137>>,
        <<69, 40, 33, 230>>, <<56, 208, 19, 119>>, <<190, 84, 102, 207>>, <<52, 233, 12, 108>>,
        <<192, 172, 41, 183>>, <<201, 124, 80, 221>>, <<63, 132, 213, 181>>, <<181, 71, 9, 23>>,
        <<146, 22, 213, 217>>, <<137, 121, 251, 27>>>>,
      SBox0 |->
       <<<<209, 49, 11, 166>>, <<152, 223, 181, 172>>, <<47, 253, 114, 219>>, <<208, 26, 223, 183>>,
        <<184, 225, 175, 237>>, <<106, 38, 126, 150>>, <<186, 124, 144, 69>>, <<241, 44, 127, 153>>,
        <<36, 161, 153, 71>>, <<179, 145, 108, 247>>, <<8, 1, 242, 226>>, <<133, 142, 252, 22>>,
        <<99, 105, 32, 216>>, <<113, 87, 78, 105>>, <<164, 88, 254, 163>>, <<244, 147, 61, 126>>,
        <<13, 149, 116, 143>>, <<114, 142, 182, 88>>, <<113, 139, 205, 88>>, <<130, 21, 74, 238>>,
        <<123, 84, 164, 29>>, <<194, 90, 89, 181>>, <<156, 48, 213, 57>>, <<42, 242, 96, 19>>,
        <<197, 209, 176, 35>>, <<40, 96, 133, 240>>, <<202, 65, 121, 24>>, <<184, 219, 56, 239>>,
        <<142, 121, 220, 176>>, <<96, 58, 24, 14>>, <<108, 158, 14, 139>>, <<176, 30, 138, 62>>,
        <<215, 21, 119, 193>>, <<189, 49, 75, 39>>, <<120, 175, 47, 218>>, <<85, 96, 92, 96>>,
        <<230, 85, 37, 243>>, <<170, 85, 171, 148>>, <<87, 72, 152, 98>>, <<99, 232, 20, 64>>,
        <<85, 202, 57, 106>>, <<42, 171, 16, 182>>, <<180, 204, 92, 52>>, <<17, 65, 232, 206>>,
        <<161, 84, 134, 175>>, <<124, 114, 233, 147>>, <<179, 238, 20, 17>>, <<99, 111, 188, 42>>,
        <<43, 169, 197, 93>>, <<116, 24, 49, 246>>, <<206, 92, 62, 22>>, <<155, 135, 147, 30>>,
        <<175, 214, 186, 51>>, <<108, 36, 207, 92>>, <<122, 50, 83, 129>>, <<40, 149, 134, 119>>,
        <<59, 143, 72, 152>>, <<107, 75, 185, 175>>, <<196, 191, 232, 27>>, <<102, 40, 33, 147>>,
        <<97, 216, 9, 204>>, <<251, 33, 169, 145>>, <<72, 124, 172, 96>>, <<93, 236, 128, 50>>,
        <<239, 132, 93, 93>>, <<233, 133, 117, 177>>, <<220, 38, 35, 2>>, <<235, 101, 27, 136>>,
        <<35, 137, 62, 129>>, <<211, 150, 172, 197>>, <<15, 109, 111, 243>>, <<131, 244, 66, 57>>,
        <<46, 11, 68, 130>>, <<164, 132, 32, 4>>, <<105, 200, 240, 74>>, <<158, 31, 155, 94>>,
        <<33, 198, 104, 66>>, <<246, 233, 108, 154>>, <<103, 12, 156, 97>>, <<171, 211, 136, 240>>,
        <<106, 81, 160, 210>>, <<216, 84, 47, 104>>, <<150, 15, 167, 40>>, <<171, 81, 51, 163>>,
        <<110, 239, 11, 108>>, <<19, 122, 59, 228>>, <<186, 59, 240, 80>>, <<126, 251, 42, 152>>,
        <<161, 241, 101, 29>>, <<57, 175, 1, 118>>, <<102, 202, 89, 62>>, <<130, 67, 14, 136>>,
        <<140, 238, 134, 25>>, <<69, 111, 159, 180>>, <<125, 132, 165, 195>>, <<59, 139, 94, 190>>,
        <<224, 111, 117, 216>>, <<133, 193, 32, 115>>, <<64, 26, 68, 159>>, <<86, 193, 106, 166>>,
        <<78, 211, 170, 98>>, <<54, 63, 119, 6>>, <<27, 254, 223, 114>>, <<66, 155, 2, 61>>,
        <<55, 208, 215, 36>>, <<208, 10, 18, 72>>, <<219, 15, 234, 211>>, <<73, 241, 192, 155>>,
        <<7, 83, 114, 201>>, <<128, 153, 27, 123>>, <<37, 212, 121, 216>>, <<246, 232, 222, 247>>,
        <<227, 254, 80, 26>>, <<182, 121, 76, 59>>, <<151, 108, 224, 189>>, <<4, 192, 6, 186>>,
        <<193, 169, 79, 182>>, <<64, 159, 96, 196>>, <<94, 92, 158, 194>>, <<25, 106, 36, 99>>,
        <<104, 251, 111, 175>>, <<62, 108, 83, 181>>, <<19, 57, 178, 235>>, <<59, 82, 236, 111>>,
        <<109, 252, 81, 31>>, <<155, 48, 149, 44>>, <<204, 129, 69, 68>>, <<175, 94, 189, 9>>,
        <<190, 227, 208, 4>>, <<222, 51, 74, 253>>, <<102, 15, 40, 7>>, <<25, 46, 75, 179>>,
        <<192, 203, 168, 87>>, <<69, 200, 116, 15>>, <<210, 11, 95, 57>>, <<185, 211, 251, 219>>,
        <<85, 121, 192, 189>>, <<26, 96, 50, 10>>, <<214, 161, 0, 198>>, <<64, 44, 114, 121>>,
        <<103, 159, 37, 254>>, <<251, 31, 163, 204>>, <<142, 165, 233, 248>>, <<219, 50, 34, 248>>,
        <<60, 117, 22, 223>>, <<253, 97, 107, 21>>, <<47, 80, 30, 200>>, <<173, 5, 82, 171>>,
        <<50, 61, 181, 250>>, <<253, 35, 135, 96>>, <<83, 49, 123, 72>>, <<62, 0, 223, 130>>,
        <<158, 92, 87, 187>>, <<202, 111, 140, 160>>, <<26, 135, 86, 46>>, <<223, 23, 105, 219>>,
        <<213, 66, 168, 246>>, <<40, 126, 255, 195>>, <<172, 103, 50, 198>>, <<140, 79, 85, 115>>,
        <<105, 91, 39, 176>>, <<187, 202, 88, 200>>, <<225, 255, 163, 93>>, <<184, 240, 17, 160>>,
        <<16, 250, 61, 152>>, <<253, 33, 131, 184>>, <<74, 252, 181, 108>>, <<45, 209, 211, 91>>,
        <<154, 83, 228, 121>>, <<182, 248, 69, 101>>, <<210, 142, 73, 188>>, <<75, 251, 151, 144>>,
        <<225, 221, 242, 218>>, <<164, 203, 126, 51>>, <<98, 251, 19, 65>>, <<206, 228, 198, 232>>,
        <<239, 32, 202, 218>>, <<54, 119, 76, 1>>, <<208, 126, 158, 254>>, <<43, 241, 31, 180>>,
        <<149, 219, 218, 77>>, <<174, 144, 145, 152>>, <<234, 173, 142, 113>>, <<107, 147, 213, 160>>,
        <<208, 142, 209, 208>>, <<175, 199, 37, 224>>, <<142, 60, 91, 47>>, <<142, 117, 148, 183>>,
        <<143, 246, 226, 251>>, <<242, 18, 43, 100>>, <<136, 136, 184, 18>>, <<144, 13, 240, 28>>,
        <<79, 173, 94, 160>>, <<104, 143, 195, 28>>, <<209, 207, 241, 145>>, <<179, 168, 193, 173>>,
        <<47, 47, 34, 24>>, <<190, 14, 23, 119>>, <<234, 117, 45, 254>>, <<139, 2, 31, 161>>,
        <<229, 160, 204, 15>>, <<181, 111, 116, 232>>, <<24, 172, 243, 214>>, <<206, 137, 226, 153>>,
        <<180, 168, 79, 224>>, <<253, 19, 224, 183>>, <<124, 196, 59, 129>>, <<210, 173, 168, 217>>,
        <<22, 95, 162, 102>>, <<128, 149, 119, 5>>, <<147, 204, 115, 20>>, <<33, 26, 20, 119>>,
        <<230, 173, 32, 101>>, <<119, 181, 250, 134>>, <<199, 84, 66, 245>>, <<251, 157, 53, 207>>,
        <<235, 205, 175, 12>>, <<123, 62, 137, 160>>, <<214, 65, 27, 211>>, <<174, 30, 126, 73>>,
        <<0, 37, 14, 45>>, <<32, 113, 179, 94>>, <<34, 104, 0, 187>>, <<87, 184, 224, 175>>,
        <<36, 100, 54, 155>>, <<240, 9, 185, 30>>, <<85, 99, 145, 29>>, <<89, 223, 166, 170>>,
        <<120, 193, 67, 137>>, <<217, 90, 83, 127>>, <<32, 125, 91, 162>>, <<2, 229, 185, 197>>,
        <<131, 38, 3, 118>>, <<98, 149, 207, 169>>, <<17, 200, 25, 104>>, <<78, 115, 74, 65>>,
        <<179, 71, 45, 202>>, <<123, 20, 169, 74>>, <<27, 81, 0, 82>>, <<154, 83, 41, 21>>,
        <<214, 15, 87, 63>>, <<188, 155, 198, 228>>, <<43, 96, 164, 118>>, <<129, 230, 116, 0>>,
        <<8, 186, 111, 181>>, <<87, 27, 233, 31>>, <<242, 150, 236, 107>>, <<42, 13, 217, 21>>,
        <<182, 99, 101, 33>>, <<231, 185, 249, 182>>, <<255, 52, 5, 46>>, <<197, 133, 86, 100>>,
        <<83, 176, 45, 93>>, <<169, 159, 143, 161>>, <<8, 186, 71, 153>>, <<110, 133, 7, 106>>>>,
      SBox1 |->
       <<<<75, 122, 112, 233>>, <<181, 179, 41, 68>>, <<219, 117, 9, 46>>, <<196, 25, 38, 35>>,
        <<173, 110, 166, 176>>, <<73, 167, 223, 125>>, <<156, 238, 96, 184>>, <<143, 237, 178, 102>>,
        <<236, 170, 140, 113>>, <<105, 154, 23, 255>>, <<86, 100, 82, 108>>, <<194, 177, 158, 225>>,
        <<25, 54, 2, 165>>, <<117, 9, 76, 41>>, <<160, 89, 19, 64>>, <<228, 24, 58, 62>>,
        <<63, 84, 152, 154>>, <<91, 66, 157, 101>>, <<107, 143, 228, 214>>, <<153, 247, 63, 214>>,
        <<161, 210, 156, 7>>, <<239, 232, 48, 245>>, <<77, 45, 56, 230>>, <<240, 37, 93, 193>>,
        <<76, 221, 32, 134>>, <<132, 112, 235, 38>>, <<99, 130, 233, 198>>, <<2, 30, 204, 94>>,
        <<9, 104, 107, 63>>, <<62, 186, 239, 201>>, <<60, 151, 24, 20>>, <<107, 106, 112, 161>>,
        <<104, 127, 53, 132>>, <<82, 160, 226, 134>>, <<183, 156, 83, 5>>, <<170, 80, 7, 55>>,
        <<62, 7, 132, 28>>, <<127, 222, 174, 92>>, <<142, 125, 68, 236>>, <<87, 22, 242, 184>>,
        <<176, 58, 218, 55>>, <<240, 80, 12, 13>>, <<240, 28, 31, 4>>, <<2, 0, 179, 255>>,
        <<174, 12, 245, 26>>, <<60, 181, 116, 178>>, <<37, 131, 122, 88>>, <<220, 9, 33, 189>>,
        <<209, 145, 19, 249>>, <<124, 169, 47, 246>>, <<148, 50, 71, 115>>, <<34, 245, 71, 1>>,
        <<58, 229, 229, 129>>, <<55, 194, 218, 220>>, <<200, 181, 118, 52>>, <<154, 243, 221, 167>>,
        <<169, 68, 97, 70>>, <<15, 208, 3, 14>>, <<236, 200, 199, 62>>, <<164, 117, 30, 65>>,
        <<226, 56, 205, 153>>, <<59, 234, 14, 47>>, <<50, 128, 187, 161>>, <<24, 62, 179, 49>>,
        <<78, 84, 139, 56>>, <<79, 109, 185, 8>>, <<111, 66, 13, 3>>, <<246, 10, 4, 191>>,
        <<44, 184, 18, 144>>, <<36, 151, 124, 121>>, <<86, 121, 176, 114>>, <<188, 175, 137, 175>>,
        <<222, 154, 119, 31>>, <<217, 147, 8, 16>>, <<179, 139, 174, 18>>, <<220, 207, 63, 46>>,
        <<85, 18, 114, 31>>, <<46, 107, 113, 36>>, <<80, 26, 221, 230>>, <<159, 132, 205, 135>>,
        <<122, 88, 71, 24>>, <<116, 8, 218, 23>>, <<188, 159, 154, 188>>, <<233, 75, 125, 140>>,
        <<236, 122, 236, 58>>, <<219, 133, 29, 250>>, <<99, 9, 67, 102>>, <<196, 100, 195, 210>>,
        <<239, 28, 24, 71>>, <<50, 21, 217, 8>>, <<221, 67, 59, 55>>, <<36, 194, 186, 22>>,
        <<18, 161, 77, 67>>, <<42, 101, 196, 81>>, <<80, 148, 0, 2>>, <<19, 58, 228, 221>>,
        <<113, 223, 248, 158>>, <<16, 49, 78, 85>>, <<129, 172, 119, 214>>, <<95, 17, 25, 155>>,
        <<4, 53, 86, 241>>, <<215, 163, 199, 107>>, <<60, 17, 24, 59>>, <<89, 36, 165, 9>>,
        <<242, 143, 230, 237>>, <<151, 241, 251, 250>>, <<158, 186, 191, 44>>, <<30, 21, 60, 110>>,
        <<134, 227, 69, 112>>, <<234, 233, 111, 177>>, <<134, 14, 94, 10>>, <<90, 62, 42, 179>>,
        <<119, 31, 231, 28>>, <<78, 61, 6, 250>>, <<41, 101, 220, 185>>, <<153, 231, 29, 15>>,
        <<128, 62, 137, 214>>, <<82, 102, 200, 37>>, <<46, 76, 201, 120>>, <<156, 16, 179, 106>>,
        <<198, 21, 14, 186>>, <<148, 226, 234, 120>>, <<165, 252, 60, 83>>, <<30, 10, 45, 244>>,
        <<242, 247, 78, 167>>, <<54, 29, 43, 61>>, <<25, 57, 38, 15>>, <<25, 194, 121, 96>>,
        <<82, 35, 167, 8>>, <<247, 19, 18, 182>>, <<235, 173, 254, 110>>, <<234, 195, 31, 102>>,
        <<227, 188, 69, 149>>, <<166, 123, 200, 131>>, <<177, 127, 55, 209>>, <<1, 140, 255, 40>>,
        <<195, 50, 221, 239>>, <<190, 108, 90, 165>>, <<101, 88, 33, 133>>, <<104, 171, 152, 2>>,
        <<238, 206, 165, 15>>, <<219, 47, 149, 59>>, <<42, 239, 125, 173>>, <<91, 110, 47, 132>>,
        <<21, 33, 182, 40>>, <<41, 7, 97, 112>>, <<236, 221, 71, 117>>, <<97, 159, 21, 16>>,
        <<19, 204, 168, 48>>, <<235, 97, 189, 150>>, <<3, 52, 254, 30>>, <<170, 3, 99, 207>>,
        <<181, 115, 92, 144>>, <<76, 112, 162, 57>>, <<213, 158, 158, 11>>, <<203, 170, 222, 20>>,
        <<238, 204, 134, 188>>, <<96, 98, 44, 167>>, <<156, 171, 92, 171>>, <<178, 243, 132, 110>>,
        <<100, 139, 30, 175>>, <<25, 189, 240, 202>>, <<160, 35, 105, 185>>, <<101, 90, 187, 80>>,
        <<64, 104, 90, 50>>, <<60, 42, 180, 179>>, <<49, 158, 233, 213>>, <<192, 33, 184, 247>>,
        <<155, 84, 11, 25>>, <<135, 95, 160, 153>>, <<149, 247, 153, 126>>, <<98, 61, 125, 168>>,
        <<248, 55, 136, 154>>, <<151, 227, 45, 119>>, <<17, 237, 147, 95>>, <<22, 104, 18, 129>>,
        <<14, 53, 136, 41>>, <<199, 230, 31, 214>>, <<150, 222, 223, 161>>, <<120, 88, 186, 153>>,
        <<87, 245, 132, 165>>, <<27, 34, 114, 99>>, <<155, 131, 195, 255>>, <<26, 194, 70, 150>>,
        <<205, 179, 10, 235>>, <<83, 46, 48, 84>>, <<143, 217, 72, 228>>, <<109, 188, 49, 40>>,
        <<88, 235, 242, 239>>, <<52, 198, 255, 234>>, <<254, 40, 237, 97>>, <<238, 124, 60, 115>>,
        <<93, 74, 20, 217>>, <<232, 100, 183, 227>>, <<66, 16, 93, 20>>, <<32, 62, 19, 224>>,
        <<69, 238, 226, 182>>, <<163, 170, 171, 234>>, <<219, 108, 79, 21>>, <<250, 203, 79, 208>>,
        <<199, 66, 244, 66>>, <<239, 106, 187, 181>>, <<101, 79, 59, 29>>, <<65, 205, 33, 5>>,
        <<216, 30, 121, 158>>, <<134, 133, 77, 199>>, <<228, 75, 71, 106>>, <<61, 129, 98, 80>>,
        <<207, 98, 161, 242>>, <<91, 141, 38, 70>>, <<252, 136, 131, 160>>, <<193, 199, 182, 163>>,
        <<127, 21, 36, 195>>, <<105, 203, 116, 146>>, <<71, 132, 138, 11>>, <<86, 146, 178, 133>>,
        <<9, 91, 191, 0>>, <<173, 25, 72, 157>>, <<20, 98, 177, 116>>, <<35, 130, 14, 0>>,
        <<88, 66, 141, 42>>, <<12, 85, 245, 234>>, <<29, 173, 244, 62>>, <<35, 63, 112, 97>>,
        <<51, 114, 240, 146>>, <<141, 147, 126, 65>>, <<214, 95, 236, 241>>, <<108, 34, 59, 219>>,
        <<124, 222, 55, 89>>, <<203, 238, 116, 96>>, <<64, 133, 242, 167>>, <<206, 119, 50, 110>>,
        <<166, 7, 128, 132>>, <<25, 248, 80, 158>>, <<232, 239, 216, 85>>, <<97, 217, 151, 53>>,
        <<169, 105, 167, 170>>, <<197, 12, 6, 194>>, <<90, 4, 171, 252>>, <<128, 11, 202, 220>>,
        <<158, 68, 122, 46>>, <<195, 69, 52, 132>>, <<253, 213, 103, 5>>, <<14, 30, 158, 201>>,
        <<219, 115, 219, 211>>, <<16, 85, 136, 205>>, <<103, 95, 218, 121>>, <<227, 103, 67, 64>>,
        <<197, 196, 52, 101>>, <<113, 62, 56, 216>>, <<61, 40, 248, 158>>, <<241, 109, 255, 32>>,
        <<21, 62, 33, 231>>, <<143, 176, 61, 74>>, <<230, 227, 159, 43>>, <<219, 131, 173, 247>>>>,
      SBox2 |->
       <<<<233, 61, 90, 104>>, <<148, 129, 64, 247>>, <<246, 76, 38, 28>>, <<148, 105, 41, 52>>,
        <<65, 21, 32, 247>>, <<118, 2, 212, 247>>, <<188, 244, 107, 46>>, <<212, 162, 0, 104>>,
        <<212, 8, 36, 113>>, <<51, 32, 244, 106>>, <<67, 183, 212, 183>>, <<80, 0, 97, 175>>,
        <<30, 57, 246, 46>>, <<151, 36, 69, 70>>, <<20, 33, 79, 116>>, <<191, 139, 136, 64>>,
        <<77, 149, 252, 29>>, <<150, 181, 145, 175>>, <<112, 244, 221, 211>>, <<102, 160, 47, 69>>,
        <<191, 188, 9, 236>>, <<3, 189, 151, 133>>, <<127, 172, 109, 208>>, <<49, 203, 133, 4>>,
        <<150, 235, 39, 179>>, <<85, 253, 57, 65>>, <<218, 37, 71, 230>>, <<171, 202, 10, 154>>,
        <<40, 80, 120, 37>>, <<83, 4, 41, 244>>, <<10, 44, 134, 218>>, <<233, 182, 109, 251>>,
        <<104, 220, 20, 98>>, <<215, 72, 105, 0>>, <<104, 14, 192, 164>>, <<39, 161, 141, 238>>,
        <<79, 63, 254, 162>>, <<232, 135, 173, 140>>, <<181, 140, 224, 6>>, <<122, 244, 214, 182>>,
        <<170, 206, 30, 124>>, <<211, 55, 95, 236>>, <<206, 120, 163, 153>>, <<64, 107, 42, 66>>,
        <<32, 254, 158, 53>>, <<217, 243, 133, 185>>, <<238, 57, 215, 171>>, <<59, 18, 78, 139>>,
        <<29, 201, 250, 247>>, <<75, 109, 24, 86>>, <<38, 163, 102, 49>>, <<234, 227, 151, 178>>,
        <<58, 110, 250, 116>>, <<221, 91, 67, 50>>, <<104, 65, 231, 247>>, <<202, 120, 32, 251>>,
        <<251, 10, 245, 78>>, <<216, 254, 179, 151>>, <<69, 64, 86, 172>>, <<186, 72, 149, 39>>,
        <<85, 83, 58, 58>>, <<32, 131, 141, 135>>, <<254, 107, 169, 183>>, <<208, 150, 149, 75>>,
        <<85, 168, 103, 188>>, <<161, 21, 154, 88>>, <<204, 169, 41, 99>>, <<153, 225, 219, 51>>,
        <<166, 42, 74, 86>>, <<63, 49, 37, 249>>, <<94, 244, 126, 28>>, <<144, 41, 49, 124>>,
        <<253, 248, 232, 2>>, <<4, 39, 47, 112>>, <<128, 187, 21, 92>>, <<5, 40, 44, 227>>,
        <<149, 193, 21, 72>>, <<228, 198, 109, 34>>, <<72, 193, 19, 63>>, <<199, 15, 134, 220>>,
        <<7, 249, 201, 238>>, <<65, 4, 31, 15>>, <<64, 71, 121, 164>>, <<93, 136, 110, 23>>,
        <<50, 95, 81, 235>>, <<213, 155, 192, 209>>, <<242, 188, 193, 143>>, <<65, 17, 53, 100>>,
        <<37, 123, 120, 52>>, <<96, 42, 156, 96>>, <<223, 248, 232, 163>>, <<31, 99, 108, 27>>,
        <<14, 18, 180, 194>>, <<2, 225, 50, 158>>, <<175, 102, 79, 209>>, <<202, 209, 129, 21>>,
        <<107, 35, 149, 224>>, <<51, 62, 146, 225>>, <<59, 36, 11, 98>>, <<238, 190, 185, 34>>,
        <<133, 178, 162, 14>>, <<230, 186, 13, 153>>, <<222, 114, 12, 140>>, <<45, 162, 247, 40>>,
        <<208, 18, 120, 69>>, <<149, 183, 148, 253>>, <<100, 125, 8, 98>>, <<231, 204, 245, 240>>,
        <<84, 73, 163, 111>>, <<135, 125, 72, 250>>, <<195, 157, 253, 39>>, <<243, 62, 141, 30>>,
        <<10, 71, 99, 65>>, <<153, 46, 255, 116>>, <<58, 111, 110, 171>>, <<244, 248, 253, 55>>,
        <<168, 18, 220, 96>>, <<161, 235, 221, 248>>, <<153, 27, 225, 76>>, <<219, 110, 107, 13>>,
        <<198, 123, 85, 16>>, <<109, 103, 44, 55>>, <<39, 101, 212, 59>>, <<220, 208, 232, 4>>,
        <<241, 41, 13, 199>>, <<204, 0, 255, 163>>, <<181, 57, 15, 146>>, <<105, 15, 237, 11>>,
        <<102, 123, 159, 251>>, <<206, 219, 125, 156>>, <<160, 145, 207, 11>>, <<217, 21, 94, 163>>,
        <<187, 19, 47, 136>>, <<81, 91, 173, 36>>, <<123, 148, 121, 191>>, <<118, 59, 214, 235>>,
        <<55, 57, 46, 179>>, <<204, 17, 89, 121>>, <<128, 38, 226, 151>>, <<244, 46, 49, 45>>,
        <<104, 66, 173, 167>>, <<198, 106, 43, 59>>, <<18, 117, 76, 204>>, <<120, 46, 241, 28>>,
        <<106, 18, 66, 55>>, <<183, 146, 81, 231>>, <<6, 161, 187, 230>>, <<75, 251, 99, 80>>,
        <<26, 107, 16, 24>>, <<17, 202, 237, 250>>, <<61, 37, 189, 216>>, <<226, 225, 195, 201>>,
        <<68, 66, 22, 89>>, <<10, 18, 19, 134>>, <<217, 12, 236, 110>>, <<213, 171, 234, 42>>,
        <<100, 175, 103, 78>>, <<218, 134, 168, 95>>, <<190, 191, 233, 136>>, <<100, 228, 195, 254>>,
        <<157, 188, 128, 87>>, <<240, 247, 192, 134>>, <<96, 120, 123, 248>>, <<96, 3, 96, 77>>,
        <<209, 253, 131, 70>>, <<246, 56, 31, 176>>, <<119, 69, 174, 4>>, <<215, 54, 252, 204>>,
        <<131, 66, 107, 51>>, <<240, 30, 171, 113>>, <<176, 128, 65, 135>>, <<60, 0, 94, 95>>,
        <<119, 160, 87, 190>>, <<189, 232, 174, 36>>, <<85, 70, 66, 153>>, <<191, 88, 46, 97>>,
        <<78, 88, 244, 143>>, <<242, 221, 253, 162>>, <<244, 116, 239, 56>>, <<135, 137, 189, 194>>,
        <<83, 102, 249, 195>>, <<200, 179, 142, 116>>, <<180, 117, 242, 85>>, <<70, 252, 217, 185>>,
        <<122, 235, 38, 97>>, <<139, 29, 223, 132>>, <<132, 106, 14, 121>>, <<145, 95, 149, 226>>,
        <<70, 110, 89, 142>>, <<32, 180, 87, 112>>, <<140, 213, 85, 145>>, <<201, 2, 222, 76>>,
        <<185, 11, 172, 225>>, <<187, 130, 5, 208>>, <<17, 168, 98, 72>>, <<117, 116, 169, 158>>,
        <<183, 127, 25, 182>>, <<224, 169, 220, 9>>, <<102, 45, 9, 161>>, <<196, 50, 70, 51>>,
        <<232, 90, 31, 2>>, <<9, 240, 190, 140>>, <<74, 153, 160, 37>>, <<29, 110, 254, 16>>,
        <<26, 185, 61, 29>>, <<11, 165, 164, 223>>, <<161, 134, 242, 15>>, <<40, 104, 241, 105>>,
        <<220, 183, 218, 131>>, <<87, 57, 6, 254>>, <<161, 226, 206, 155>>, <<79, 205, 127, 82>>,
        <<80, 17, 94, 1>>, <<167, 6, 131, 250>>, <<160, 2, 181, 196>>, <<13, 230, 208, 39>>,
        <<154, 248, 140, 39>>, <<119, 63, 134, 65>>, <<195, 96, 76, 6>>, <<97, 168, 6, 181>>,
        <<240, 23, 122, 40>>, <<192, 245, 134, 224>>, <<0, 96, 88, 170>>, <<48, 220, 125, 98>>,
        <<17, 230, 158, 215>>, <<35, 56, 234, 99>>, <<83, 194, 221, 148>>, <<194, 194, 22, 52>>,
        <<187, 203, 238, 86>>, <<144, 188, 182, 222>>, <<235, 252, 125, 161>>, <<206, 89, 29, 118>>,
        <<111, 5, 228, 9>>, <<75, 124, 1, 136>>, <<57, 114, 10, 61>>, <<124, 146, 124, 36>>,
        <<134, 227, 114, 95>>, <<114, 77, 157, 185>>, <<26, 193, 91, 180>>, <<211, 158, 184, 252>>,
        <<237, 84, 85, 120>>, <<8, 252, 165, 181>>, <<216, 61, 124, 211>>, <<77, 173, 15, 196>>,
        <<30, 80, 239, 94>>, <<177, 97, 230, 248>>, <<162, 133, 20, 217>>, <<108, 81, 19, 60>>,
        <<111, 213, 199, 231>>, <<86, 225, 78, 196>>, <<54, 42, 191, 206>>, <<221, 198, 200, 55>>,
        <<215, 154, 50, 52>>, <<146, 99, 130, 18>>, <<103, 14, 250, 142>>, <<64, 96, 0, 224>>>>,
      SBox3 |->
       <<<<58, 57, 206, 55>>, <<211, 250, 245, 207>>, <<171, 194, 119, 55>>, <<90, 197, 45, 27>>,
        <<92, 176, 103, 158>>, <<79, 163, 55, 66>>, <<211, 130, 39, 64>>, <<153, 188, 155, 190>>,
        <<213, 17, 142, 157>>, <<191, 15, 115, 21>>, <<214, 45, 28, 126>>, <<199, 0, 196, 123>>,
        <<183, 140, 27, 107>>, <<33, 161, 144, 69>>, <<178, 110, 177, 190>>, <<106, 54, 110, 180>>,
        <<87, 72, 171, 47>>, <<188, 148, 110, 121>>, <<198, 163, 118, 210>>, <<101, 73, 194, 200>>,
        <<83, 15, 248, 238>>, <<70, 141, 222, 125>>, <<213, 115, 10, 29>>, <<76, 208, 77, 198>>,
        <<41, 57, 187, 219>>, <<169, 186, 70, 80>>, <<172, 149, 38, 232>>, <<190, 94, 227, 4>>,
        <<161, 250, 213, 240>>, <<106, 45, 81, 154>>, <<99, 239, 140, 226>>, <<154, 134, 238, 34>>,
        <<192, 137, 194, 184>>, <<67, 36, 46, 246>>, <<165, 30, 3, 170>>, <<156, 242, 208, 164>>,
        <<131, 192, 97, 186>>, <<155, 233, 106, 77>>, <<143, 229, 21, 80>>, <<186, 100, 91, 214>>,
        <<40, 38, 162, 249>>, <<167, 58, 58, 225>>, <<75, 169, 149, 134>>, <<239, 85, 98, 233>>,
        <<199, 47, 239, 211>>, <<247, 82, 247, 218>>, <<63, 4, 111, 105>>, <<119, 250, 10, 89>>,
        <<128, 228, 169, 21>>, <<135, 176, 134, 1>>, <<155, 9, 230, 173>>, <<59, 62, 229, 147>>,
        <<233, 144, 253, 90>>, <<158, 52, 215, 151>>, <<44, 240, 183, 217>>, <<2, 43, 139, 81>>,
        <<150, 213, 172, 58>>, <<1, 125, 166, 125>>, <<209, 207, 62, 214>>, <<124, 125, 45, 40>>,
        <<31, 159, 37, 207>>, <<173, 242, 184, 155>>, <<90, 214, 180, 114>>, <<90, 136, 245, 76>>,
        <<224, 41, 172, 113>>, <<224, 25, 165, 230>>, <<71, 176, 172, 253>>, <<237, 147, 250, 155>>,
        <<232, 211, 196, 141>>, <<40, 59, 87, 204>>, <<248, 213, 102, 41>>, <<121, 19, 46, 40>>,
        <<120, 95, 1, 145>>, <<237, 117, 96, 85>>, <<247, 150, 14, 68>>, <<227, 211, 94, 140>>,
        <<21, 5, 109, 212>>, <<136, 244, 109, 186>>, <<3, 161, 97, 37>>, <<5, 100, 240, 189>>,
        <<195, 235, 158, 21>>, <<60, 144, 87, 162>>, <<151, 39, 26, 236>>, <<169, 58, 7, 42>>,
        <<27, 63, 109, 155>>, <<30, 99, 33, 245>>, <<245, 156, 102, 251>>, <<38, 220, 243, 25>>,
        <<117, 51, 217, 40>>, <<177, 85, 253, 245>>, <<3, 86, 52, 130>>, <<138, 186, 60, 187>>,
        <<40, 81, 119, 17>>, <<194, 10, 217, 248>>, <<171, 204, 81, 103>>, <<204, 173, 146, 95>>,
        <<77, 232, 23, 81>>, <<56, 48, 220, 142>>, <<55, 157, 88, 98>>, <<147, 32, 249, 145>>,
        <<234, 122, 144, 194>>, <<251, 62, 123, 206>>, <<81, 33, 206, 100>>, <<119, 79, 190, 50>>,
        <<168, 182, 227, 126>>, <<195, 41, 61, 70>>, <<72, 222, 83, 105>>, <<100, 19, 230, 128>>,
        <<162, 174, 8, 16>>, <<221, 109, 178, 36>>, <<105, 133, 45, 253>>, <<9, 7, 33, 102>>,
        <<179, 154, 70, 10>>, <<100, 69, 192, 221>>, <<88, 108, 222, 207>>, <<28, 32, 200, 174>>,
        <<91, 190, 247, 221>>, <<27, 88, 141, 64>>, <<204, 210, 1, 127>>, <<107, 180, 227, 187>>,
        <<221, 162, 106, 126>>, <<58, 89, 255, 69>>, <<62, 53, 10, 68>>, <<188, 180, 205, 213>>,
        <<114, 234, 206, 168>>, <<250, 100, 132, 187>>, <<141, 102, 18, 174>>, <<191, 60, 111, 71>>,
        <<210, 155, 228, 99>>, <<84, 47, 93, 158>>, <<174, 194, 119, 27>>, <<246, 78, 99, 112>>,
        <<116, 14, 13, 141>>, <<231, 91, 19, 87>>, <<248, 114, 22, 113>>, <<175, 83, 125, 93>>,
        <<64, 64, 203, 8>>, <<78, 180, 226, 204>>, <<52, 210, 70, 106>>, <<1, 21, 175, 132>>,
        <<225, 176, 4, 40>>, <<149, 152, 58, 29>>, <<6, 184, 159, 180>>, <<206, 110, 160, 72>>,
        <<111, 63, 59, 130>>, <<53, 32, 171, 130>>, <<1, 26, 29, 75>>, <<39, 114, 39, 248>>,
        <<97, 21, 96, 177>>, <<231, 147, 63, 220>>, <<187, 58, 121, 43>>, <<52, 69, 37, 189>>,
        <<160, 136, 57, 225>>, <<81, 206, 121, 75>>, <<47, 50, 201, 183>>, <<160, 31, 186, 201>>,
        <<224, 28, 200, 126>>, <<188, 199, 209, 246>>, <<207, 1, 17, 195>>, <<161, 232, 170, 199>>,
        <<26, 144, 135, 73>>, <<212, 79, 189, 154>>, <<208, 218, 222, 203>>, <<213, 10, 218, 56>>,
        <<3, 57, 195, 42>>, <<198, 145, 54, 103>>, <<141, 249, 49, 124>>, <<224, 177, 43, 79>>,
        <<247, 158, 89, 183>>, <<67, 245, 187, 58>>, <<242, 213, 25, 255>>, <<39, 217, 69, 156>>,
        <<191, 151, 34, 44>>, <<21, 230, 252, 42>>, <<15, 145, 252, 113>>, <<155, 148, 21, 37>>,
        <<250, 229, 147, 97>>, <<206, 182, 156, 235>>, <<194, 168, 100, 89>>, <<18, 186, 168, 209>>,
        <<182, 193, 7, 94>>, <<227, 5, 106, 12>>, <<16, 210, 80, 101>>, <<203, 3, 164, 66>>,
        <<224, 236, 110, 14>>, <<22, 152, 219, 59>>, <<76, 152, 160, 190>>, <<50, 120, 233, 100>>,
        <<159, 31, 149, 50>>, <<224, 211, 146, 223>>, <<211, 160, 52, 43>>, <<137, 113, 242, 30>>,
        <<27, 10, 116, 65>>, <<75, 163, 52, 140>>, <<197, 190, 113, 32>>, <<195, 118, 50, 216>>,
        <<223, 53, 159, 141>>, <<155, 153, 47, 46>>, <<230, 11, 111, 71>>, <<15, 227, 241, 29>>,
        <<229, 76, 218, 84>>, <<30, 218, 216, 145>>, <<206, 98, 121, 207>>, <<205, 62, 126, 111>>,
        <<22, 24, 177, 102>>, <<253, 44, 29, 5>>, <<132, 143, 210, 197>>, <<246, 251, 34, 153>>,
        <<245, 35, 243, 87>>, <<166, 50, 118, 35>>, <<147, 168, 53, 49>>, <<86, 204, 205, 2>>,
        <<172, 240, 129, 98>>, <<90, 117, 235, 181>>, <<110, 22, 54, 151>>, <<136, 210, 115, 204>>,
        <<222, 150, 98, 146>>, <<129, 185, 73, 208>>, <<76, 80, 144, 27>>, <<113, 198, 86, 20>>,
        <<230, 198, 199, 189>>, <<50, 122, 20, 10>>, <<69, 225, 208, 6>>, <<195, 242, 123, 154>>,
        <<201, 170, 83, 253>>, <<98, 168, 15, 0>>, <<187, 37, 191, 226>>, <<53, 189, 210, 246>>,
        <<113, 18, 105, 5>>, <<178, 4, 2, 34>>, <<182, 203, 207, 124>>, <<205, 118, 156, 43>>,
        <<83, 17, 62, 192>>, <<22, 64, 227, 211>>, <<56, 171, 189, 96>>, <<37, 71, 173, 240>>,
        <<186, 56, 32, 156>>, <<247, 70, 206, 118>>, <<119, 175, 161, 197>>, <<32, 117, 96, 96>>,
        <<133, 203, 254, 78>>, <<138, 232, 141, 216>>, <<122, 170, 249, 176>>, <<76, 249, 170, 126>>,
        <<25, 72, 194, 92>>, <<2, 251, 138, 140>>, <<1, 195, 106, 228>>, <<214, 235, 225, 249>>,
        <<144, 212, 248, 105>>, <<166, 92, 222, 160>>, <<63, 9, 37, 45>>, <<194, 8, 230, 159>>,
        <<183, 78, 97, 50>>, <<206, 119, 226, 91>>, <<87, 143, 223, 227>>, <<58, 195, 114, 230>>>> ]

(***************************************************************************)
(* AES (package aes).  An instance a is [roundKeys, rounds]; the state of  *)
(* a call is 16 bytes, byte i in row i % 4 and column i \div 4.            *)
(***************************************************************************)
AesErrKeySize   == "aes_invalid_key_size"
AesErrPlaintext == "aes_invalid_plaintext_size"
AesErrCiphertext == "aes_invalid_ciphertext_size"

\* rotWord: (w << 8) | (w >> 24)
rotWord(w) == <<w[2], w[3], w[4], w[1]>>

\* subWord: the S-box on the four bytes of w
subWord(w) ==
    <<aesInternal.SBOX[w[1] + 1], aesInternal.SBOX[w[2] + 1],
      aesInternal.SBOX[w[3] + 1], aesInternal.SBOX[w[4] + 1]>>

\* "temp" of round i of the expansion loop, from roundKeys[i-1]
expandTemp(temp, i, nk) ==
    IF i % nk = 0 THEN WXor(subWord(rotWord(temp)), aesInternal.RCON[i \div nk])
    ELSE IF nk > 6 /\ i % nk = 4 THEN subWord(temp)
    ELSE temp

RECURSIVE expandWords(_, _, _, _)
\* "a.roundKeys[i] = a.roundKeys[i-nk] ^ temp" for i = from .. to-1
expandWords(rk, nk, from, to) ==
    IF Len(rk) < 0 THEN rk
    ELSE IF to <= from THEN rk
    ELSE IF to - from = 1
    THEN [rk EXCEPT ![from + 1] = WXor(rk[from - nk + 1], expandTemp(rk[from], from, nk))]
    ELSE expandWords(expandWords(rk, nk, from, (from + to) \div 2), nk,
                     (from + to) \div 2, to)

\* AES.expandKey: the round keys of an instance of rnds rounds
aesExpandKey(key, rnds) ==
    expandWords(Bytes([i \in 1..((rnds + 1) * 4) |->
                    IF i <= Len(key) \div 4
                    THEN <<key[4 * i - 3], key[4 * i - 2], key[4 * i - 1], key[4 * i]>>
                    ELSE <<0, 0, 0, 0>>]),
                Len(key) \div 4, Len(key) \div 4, (rnds + 1) * 4)

\* aes.New: the instance, or nil and the error
aesNew(key) ==
    IF Len(key) \notin {16, 24, 32} THEN Fail(AesErrKeySize)
    ELSE Ok([rounds    |-> (Len(key) \div 4) + 6,
             roundKeys |-> aesExpandKey(key, (Len(key) \div 4) + 6)])

\* AES.subBytes and AES.invSubBytes
subBytes(state)    == Bytes([i \in 1..16 |-> aesInternal.SBOX[state[i] + 1]])
invSubBytes(state) == Bytes([i \in 1..16 |-> aesInternal.InvSBOX[state[i] + 1]])

\* AES.shiftRows: row r moves left by r columns
shiftRows(state) ==
    Bytes([i \in 1..16 |-> state[((i - 1 + 4 * ((i - 1) % 4)) % 16) + 1]])

\* AES.invShiftRows: row r moves right by r columns
invShiftRows(state) ==
    Bytes([i \in 1..16 |-> state[((i - 1 + 12 * ((i - 1) % 4)) % 16) + 1]])

\* byte r of a column (a0, a1, a2, a3) of mixColumns
mixByte(col, r) ==
    Xor(Xor(aesInternal.MUL_2[col[r + 1] + 1], aesInternal.MUL_3[col[((r + 1) % 4) + 1] + 1]),
        Xor(col[((r + 2) % 4) + 1], col[((r + 3) % 4) + 1]))

\* byte r of a column (a0, a1, a2, a3) of invMixColumns
invMixByte(col, r) ==
    Xor(Xor(aesInternal.MUL_14[col[r + 1] + 1], aesInternal.MUL_11[col[((r + 1) % 4) + 1] + 1]),
        Xor(aesInternal.MUL_13[col[((r + 2) % 4) + 1] + 1],
            aesInternal.MUL_9[col[((r + 3) % 4) + 1] + 1]))

\* AES.mixColumns and AES.invMixColumns
mixColumns(state) ==
    Bytes([i \in 1..16 |->
             mixByte(Slice(state, 4 * ((i - 1) \div 4), 4 * ((i - 1) \div 4) + 4),
                     (i - 1) % 4)])
invMixColumns(state) ==
    Bytes([i \in 1..16 |->
             invMixByte(Slice(state, 4 * ((i - 1) \div 4), 4 * ((i - 1) \div 4) + 4),
                        (i - 1) % 4)])

\* AES.addRoundKey: the four words of round rnd on the four columns
addRoundKey(a, state, rnd) ==
    Bytes([i \in 1..16 |->
             Xor(state[i], a.roundKeys[rnd * 4 + ((i - 1) \div 4) + 1][((i - 1) % 4) + 1])])

\* step x of Encrypt on the state: the first addRoundKey for x = 0, a main
\* round for x = 1 .. rounds-1, the last round for x = rounds
aesEncryptStep(a, state, x) ==
    IF x = 0 THEN addRoundKey(a, state, 0)
    ELSE IF x < a.rounds
    THEN addRoundKey(a, mixColumns(shiftRows(subBytes(state))), x)
    ELSE addRoundKey(a, shiftRows(subBytes(state)), a.rounds)

\* step x of Decrypt on the state: the first addRoundKey for x = 0, the main
\* round "rounds - x" for x = 1 .. rounds-1, the last round for x = rounds
aesDecryptStep(a, state, x) ==
    IF x = 0 THEN addRoundKey(a, state, a.rounds)
    ELSE IF x < a.rounds
    THEN invMixColumns(addRoundKey(a, invSubBytes(invShiftRows(state)), a.rounds - x))
    ELSE addRoundKey(a, invSubBytes(invShiftRows(state)), 0)

RECURSIVE aesSteps(_, _, _, _)
\* the steps x .. rounds of Encrypt (op = "Encrypt") or Decrypt
aesSteps(op, a, state, x) ==
    IF Len(state) < 0 THEN state
    ELSE IF x > a.rounds THEN state
    ELSE aesSteps(op, a, IF op = "Encrypt" THEN aesEncryptStep(a, state, x)
                         ELSE aesDecryptStep(a, state, x), x + 1)

\* AES.Encrypt
aesEncrypt(a, plaintext) ==
    IF Len(plaintext) # 16 THEN Fail(AesErrPlaintext)
    ELSE Ok(aesSteps("Encrypt", a, plaintext, 0))

\* AES.Decrypt
aesDecrypt(a, ciphertext) ==
    IF Len(ciphertext) # 16 THEN Fail(AesErrCiphertext)
    ELSE Ok(aesSteps("Decrypt", a, ciphertext, 0))

(***************************************************************************)
(* Blowfish (package blowfish).  An instance b is [p, s]: the 18 words of  *)
(* the P-box and the four S-boxes of 256 words.                            *)
(***************************************************************************)
BlowfishBlockSize  == 8
BlowfishMinKeySize == 4
BlowfishMaxKeySize == 56

BlowfishErrInvalidKeySize   == "blowfish_invalid_key_size"
BlowfishErrInvalidBlockSize == "blowfish_invalid_block_size"

\* Blowfish.feistel: ((s[0][a] + s[1][b1]) ^ s[2][c]) + s[3][d]
feistel(b, x) ==
    WAdd(WXor(WAdd(b.s[1][x[1] + 1], b.s[2][x[2] + 1]), b.s[3][x[3] + 1]),
         b.s[4][x[4] + 1])

\* a round of encryptBlock or decryptBlock from the new left on: right is
\* XORed and the halves change places
feistelSwap(b, lr, left) ==
    [left |-> WXor(lr.right, feistel(b, left)), right |-> left]

\* the round of encryptBlock or decryptBlock that uses b.p[i]
feistelRound(b, lr, i) == feistelSwap(b, lr, WXor(lr.left, b.p[i + 1]))

\* the end of encryptBlock and decryptBlock: the last swap is undone, right
\* is XORed with b.p[i] and left with b.p[j]
feistelEnd(b, lr, i, j) ==
    [left |-> WXor(lr.right, b.p[j + 1]), right |-> WXor(lr.left, b.p[i + 1])]

RECURSIVE encryptBlockRounds(_, _, _)
\* the rounds i .. 15 of encryptBlock
encryptBlockRounds(b, lr, i) ==
    IF Len(lr.left) < 0 THEN lr
    ELSE IF i > 15 THEN lr
    ELSE encryptBlockRounds(b, feistelRound(b, lr, i), i + 1)

\* Blowfish.encryptBlock
encryptBlock(b, lr) == feistelEnd(b, encryptBlockRounds(b, lr, 0), 16, 17)

RECURSIVE decryptBlockRounds(_, _, _)
\* the rounds i .. 2 of decryptBlock
decryptBlockRounds(b, lr, i) ==
    IF Len(lr.left) < 0 THEN lr
    ELSE IF i < 2 THEN lr
    ELSE decryptBlockRounds(b, feistelRound(b, lr, i), i - 1)

\* Blowfish.decryptBlock
decryptBlock(b, lr) == feistelEnd(b, decryptBlockRounds(b, lr, 17), 1, 0)

\* Blowfish.initBoxes
initBoxes ==
    [p |-> blowfishInternal.PBox,
     s |-> <<blowfishInternal.SBox0, blowfishInternal.SBox1,
             blowfishInternal.SBox2, blowfishInternal.SBox3>>]

\* the first loop of expandKey: word i of the P-box is XORed with the key
\* bytes 4i .. 4i+3, the key repeated
expandKeyXor(b, key) ==
    [b EXCEPT !.p = Bytes([i \in 1..18 |->
        WXor(b.p[i], <<key[((4 * i - 4) % Len(key)) + 1], key[((4 * i - 3) % Len(key)) + 1],
                       key[((4 * i - 2) % Len(key)) + 1], key[((4 * i - 1) % Len(key)) + 1]>>)])]

\* one pass of the second loop of expandKey on st = [b, lr], with lr the
\* block just encrypted
expandKeyP(st, lr, i) ==
    [b  |-> [st.b EXCEPT !.p[i + 1] = lr.left, !.p[i + 2] = lr.right],
     lr |-> lr]

\* one pass of the third loop of expandKey on st = [b, lr]
expandKeyS(st, lr, i, j) ==
    [b  |-> [st.b EXCEPT !.s[i + 1][j + 1] = lr.left, !.s[i + 1][j + 2] = lr.right],
     lr |-> lr]

\* pass n of the second and third loops taken together: passes 0..8 write
\* the P-box, passes 9..520 the S-boxes
expandKeyPass(st, n) ==
    IF n < 9 THEN expandKeyP(st, encryptBlock(st.b, st.lr), 2 * n)
    ELSE expandKeyS(st, encryptBlock(st.b, st.lr), (n - 9) \div 128,
                    2 * ((n - 9) % 128))

RECURSIVE expandKeyPasses(_, _, _)
expandKeyPasses(st, from, to) ==
    IF Len(st.lr.left) < 0 THEN st
    ELSE IF to - from = 1 THEN expandKeyPass(st, from)
    ELSE expandKeyPasses(expandKeyPasses(st, from, (from + to) \div 2),
                         (from + to) \div 2, to)

\* Blowfish.expandKey
blowfishExpandKey(b, key) ==
    expandKeyPasses([b  |-> expandKeyXor(b, key),
                     lr |-> [left |-> <<0, 0, 0, 0>>, right |-> <<0, 0, 0, 0>>]],
                    0, 521).b

\* blowfish.New: the instance, or nil and the error
blowfishNew(key) ==
    IF Len(key) < BlowfishMinKeySize \/ Len(key) > BlowfishMaxKeySize
    THEN Fail(BlowfishErrInvalidKeySize)
    ELSE Ok(blowfishExpandKey(initBoxes, key))

\* binary.BigEndian.Uint32 of the two halves of the block
blockHalves(blk) ==
    [left |-> <<blk[1], blk[2], blk[3], blk[4]>>,
     right |-> <<blk[5], blk[6], blk[7], blk[8]>>]

\* binary.BigEndian.PutUint32 of the two halves
halvesBlock(lr) == lr.left \o lr.right

\* Blowfish.Encrypt
blowfishEncrypt(b, blk) ==
    IF Len(blk) # BlowfishBlockSize THEN Fail(BlowfishErrInvalidBlockSize)
    ELSE Ok(halvesBlock(encryptBlock(b, blockHalves(blk))))

\* Blowfish.Decrypt
blowfishDecrypt(b, blk) ==
    IF Len(blk) # BlowfishBlockSize THEN Fail(BlowfishErrInvalidBlockSize)
    ELSE Ok(halvesBlock(decryptBlock(b, blockHalves(blk))))

(***************************************************************************)
(* DES (package des).  A uint64 or uint32 is the sequence of its bits, the *)
(* highest first; an instance d is [roundKeys], 16 keys of 48 bits.        *)
(***************************************************************************)
DesBlockSize == 8
DesKeySize   == 8

DesErrInvalidKeySize   == "des_invalid_key_size"
DesErrInvalidBlockSize == "des_invalid_block_size"

\* the n bits of the number v, the highest first
BitsOf(v, n) == Bytes([i \in 1..n |-> (v \div (2 ^ (n - i))) % 2])

\* a ^ b on bits
BitsXor(a, b) == Bytes([i \in 1..Len(a) |-> (a[i] + b[i]) % 2])

\* bytesToUint64
bytesToUint64(b) ==
    Bytes([i \in 1..64 |-> Bit(b[((i - 1) \div 8) + 1], 7 - ((i - 1) % 8))])

\* uint64ToBytes
uint64ToBytes(v) ==
    Bytes([i \in 1..8 |->
             128 * v[8 * i - 7] + 64 * v[8 * i - 6] + 32 * v[8 * i - 5] + 16 * v[8 * i - 4]
               + 8 * v[8 * i - 3] + 4 * v[8 * i - 2] + 2 * v[8 * i - 1] + v[8 * i]])

\* the loop shared by the permutations: bit i of the output is bit table[i]
\* of the input, the bits counted from 1 at the highest
permuted(input, table) == Bytes([i \in 1..Len(table) |-> input[table[i]]])

initialPermutation(input) == permuted(input, desInternal.IP)
finalPermutation(input)   == permuted(input, desInternal.FP)
permutedChoice2(input)    == permuted(input, desInternal.PC2)

\* the S-box i on the six bits b: the first and the last bit are the row, the
\* four between them the column
sboxOut(i, b) ==
    BitsOf(desInternal.SBOXES[i][(2 * b[1] + b[6]) * 16
                                   + (8 * b[2] + 4 * b[3] + 2 * b[4] + b[5]) + 1], 4)

\* the S-boxes on the 48 bits of mixed
sboxes(mixed) ==
    Bytes([i \in 1..32 |-> sboxOut(((i - 1) \div 4) + 1,
                                   SubSeq(mixed, 6 * ((i - 1) \div 4) + 1,
                                          6 * ((i - 1) \div 4) + 6))[((i - 1) % 4) + 1]])

\* des.feistelFunction
desFeistelFunction(r, key) ==
    permuted(sboxes(BitsXor(permuted(r, desInternal.E), key)), desInternal.P)

\* a cyclic shift to the left of 28 bits
rotate28(v, shifts) == Bytes([i \in 1..28 |-> v[((i - 1 + shifts) % 28) + 1]])

\* the shifts of round rnd of generateRoundKeys
roundShifts(rnd) == IF rnd \in {0, 1, 8, 15} THEN 1 ELSE 2

\* the shifts of the rounds 0 .. rnd taken together
RECURSIVE shiftsUpTo(_)
shiftsUpTo(rnd) == IF rnd < 0 THEN 0 ELSE roundShifts(rnd) + shiftsUpTo(rnd - 1)

\* DES.generateRoundKeys
generateRoundKeys(key) ==
    [roundKeys |->
       Bytes([rnd \in 1..16 |->
          permutedChoice2(
              rotate28(SubSeq(permuted(bytesToUint64(key), desInternal.PC1), 1, 28),
                       shiftsUpTo(rnd - 1))
           \o rotate28(SubSeq(permuted(bytesToUint64(key), desInternal.PC1), 29, 56),
                       shiftsUpTo(rnd - 1)))])]

\* des.New: the instance, or nil and the error
desNew(key) ==
    IF Len(key) # DesKeySize THEN Fail(DesErrInvalidKeySize)
    ELSE Ok(generateRoundKeys(key))

\* one round of the Feistel network with round key i on lr = [left, right]
desRound(d, lr, i) ==
    [left  |-> lr.right,
     right |-> BitsXor(lr.left, desFeistelFunction(lr.right, d.roundKeys[i + 1]))]

\* the halves of the state after the initial permutation
desHalves(blk) ==
    [left  |-> SubSeq(initialPermutation(bytesToUint64(blk)), 1, 32),
     right |-> SubSeq(initialPermutation(bytesToUint64(blk)), 33, 64)]

\* the halves change places, the final permutation, the bytes
desResult(lr) == uint64ToBytes(finalPermutation(lr.right \o lr.left))

RECURSIVE desRounds(_, _, _, _)
\* the rounds of Encrypt (op = "Encrypt", keys 0 .. 15) or Decrypt (keys
\* 15 .. 0) from the x-th on
desRounds(op, d, lr, x) ==
    IF Len(lr.left) < 0 THEN lr
    ELSE IF x > 15 THEN lr
    ELSE desRounds(op, d, desRound(d, lr, IF op = "Encrypt" THEN x ELSE 15 - x), x + 1)

\* DES.Encrypt
desEncrypt(d, blk) ==
    IF Len(blk) # DesBlockSize THEN Fail(DesErrInvalidBlockSize)
    ELSE Ok(desResult(desRounds("Encrypt", d, desHalves(blk), 0)))

\* DES.Decrypt
desDecrypt(d, blk) ==
    IF Len(blk) # DesBlockSize THEN Fail(DesErrInvalidBlockSize)
    ELSE Ok(desResult(desRounds("Decrypt", d, desHalves(blk), 0)))

(***************************************************************************)
(* SM4 (package sm4).  An instance s is [roundKeys], 32 words.             *)
(***************************************************************************)
Sm4BlockSize == 16
Sm4KeySize   == 16

Sm4ErrInvalidKeySize   == "sm4_invalid_key_size"
Sm4ErrInvalidBlockSize == "sm4_invalid_block_size"

\* the S-box on the four bytes of a word
sm4Tau(x) ==
    <<sm4Internal.SBOX[x[1] + 1], sm4Internal.SBOX[x[2] + 1],
      sm4Internal.SBOX[x[3] + 1], sm4Internal.SBOX[x[4] + 1]>>

\* "ret ^ rotateLeft(ret, 13) ^ rotateLeft(ret, 23)"
keyLinear(ret) == WXor(ret, WXor(RotateLeft32(ret, 13), RotateLeft32(ret, 23)))

\* sm4.keyTransform
keyTransform(input) == keyLinear(sm4Tau(input))

\* "ret ^ rotateLeft(ret, 2) ^ rotateLeft(ret, 10) ^ rotateLeft(ret, 18)
\*  ^ rotateLeft(ret, 24)"
sm4Linear(ret) ==
    WXor(WXor(ret, RotateLeft32(ret, 2)),
         WXor(RotateLeft32(ret, 10), WXor(RotateLeft32(ret, 18), RotateLeft32(ret, 24))))

\* sm4.feistelFunction
sm4FeistelFunction(input) == sm4Linear(sm4Tau(input))

\* the four words of 16 bytes, big-endian
sm4Words(b) ==
    << <<b[1], b[2], b[3], b[4]>>, <<b[5], b[6], b[7], b[8]>>,
       <<b[9], b[10], b[11], b[12]>>, <<b[13], b[14], b[15], b[16]>> >>

RECURSIVE expandKeyWords(_, _, _)
\* "K[i+4] = K[i] ^ keyTransform(K[i+1]^K[i+2]^K[i+3]^CK[i])" for
\* i = from .. to-1
expandKeyWords(K, from, to) ==
    IF Len(K) < 0 THEN K
    ELSE IF to - from = 1
    THEN [K EXCEPT ![from + 5] =
            WXor(K[from + 1],
                 keyTransform(WXor(WXor(K[from + 2], K[from + 3]),
                                   WXor(K[from + 4], sm4Internal.CK[from + 1]))))]
    ELSE expandKeyWords(expandKeyWords(K, from, (from + to) \div 2),
                        (from + to) \div 2, to)

\* SM4.expandKey
sm4ExpandKey(key) ==
    [roundKeys |->
       SubSeq(expandKeyWords(Bytes([i \in 1..36 |->
                                IF i <= 4 THEN WXor(sm4Words(key)[i], sm4Internal.FK[i])
                                ELSE <<0, 0, 0, 0>>]), 0, 32), 5, 36)]

\* sm4.New: the instance, or nil and the error
sm4New(key) ==
    IF Len(key) # Sm4KeySize THEN Fail(Sm4ErrInvalidKeySize)
    ELSE Ok(sm4ExpandKey(key))

\* one round on X with round key i
sm4Round(s, X, i) ==
    <<X[2], X[3], X[4],
      WXor(X[1], sm4FeistelFunction(WXor(WXor(X[2], X[3]),
                                         WXor(X[4], s.roundKeys[i + 1]))))>>

RECURSIVE sm4Rounds(_, _, _, _)
\* the rounds of Encrypt (op = "Encrypt", keys 0 .. 31) or Decrypt (keys
\* 31 .. 0) from the x-th on
sm4Rounds(op, s, X, x) ==
    IF Len(X) < 0 THEN X
    ELSE IF x > 31 THEN X
    ELSE sm4Rounds(op, s, sm4Round(s, X, IF op = "Encrypt" THEN x ELSE 31 - x), x + 1)

\* the result: the four words in reverse order
sm4Result(X) == X[4] \o X[3] \o X[2] \o X[1]

\* SM4.Encrypt
sm4Encrypt(s, plaintext) ==
    IF Len(plaintext) # Sm4BlockSize THEN Fail(Sm4ErrInvalidBlockSize)
    ELSE Ok(sm4Result(sm4Rounds("Encrypt", s, sm4Words(plaintext), 0)))

\* SM4.Decrypt
sm4Decrypt(s, ciphertext) ==
    IF Len(ciphertext) # Sm4BlockSize THEN Fail(Sm4ErrInvalidBlockSize)
    ELSE Ok(sm4Result(sm4Rounds("Decrypt", s, sm4Words(ciphertext), 0)))

(***************************************************************************)
(* One Encrypt or Decrypt call of a block cipher, statement by statement.  *)
(* The memory mem is what the calls on one instance share: the instance    *)
(* (mem.inst, of the package mem.kind) and the caller's block (mem.input). *)
(* A call has its locals loc = [pc, op, ref, buf, w, x, out]: ref names    *)
(* the array the result slice points to ("own" for an array made by the    *)
(* call, kept in buf; "input" for the caller's block), w holds the words   *)
(* the call works on and x counts its steps.  Every step returns the       *)
(* memory and the locals after it.                                         *)
(***************************************************************************)
\* the block size the call checks the input against
callBlockSize(kind, inst) ==
    CASE kind = "aes"      -> 16
      [] kind = "blowfish" -> BlowfishBlockSize
      [] kind = "des"      -> DesBlockSize
      [] kind = "sm4"      -> Sm4BlockSize
      [] kind = "twofish"  -> TwofishBlockSize
      [] kind = "rc5"      -> inst.blockSize

\* the error of a call whose input has another length
callBlockError(kind, op) ==
    CASE kind = "aes"      -> IF op = "Encrypt" THEN AesErrPlaintext ELSE AesErrCiphertext
      [] kind = "blowfish" -> BlowfishErrInvalidBlockSize
      [] kind = "des"      -> DesErrInvalidBlockSize
      [] kind = "sm4"      -> Sm4ErrInvalidBlockSize
      [] kind = "twofish"  -> TwofishErrInvalidBlockSize
      [] kind = "rc5"      -> Rc5ErrInvalidBlockSize

\* AES, Blowfish, Twofish and RC5 work on a copy of the block; DES and SM4
\* read the block into integers and make the result at the end
callCopies(kind) == kind \in {"aes", "blowfish", "twofish", "rc5"}

\* the array a slice of a call points to, and a write of bytes through it
deref(mem, loc) == IF loc.ref = "input" THEN mem.input ELSE loc.buf

store(mem, loc, bytes) ==
    IF loc.ref = "input"
    THEN [mem |-> [mem EXCEPT !.input = bytes], loc |-> loc]
    ELSE [mem |-> mem, loc |-> [loc EXCEPT !.buf = bytes]]

\* the result slice is the caller's block itself
copyBlockShared(mem) == [ref |-> "input", buf |-> <<>>]

\* "result := make([]byte, BlockSize); copy(result, block)" (for AES
\* "state := make([]byte, 16); copy(state, plaintext)")
copyBlock(mem) == [ref |-> "own", buf |-> mem.input]

\* "result := make([]byte, BlockSize)" at the end of DES and SM4
makeBlock(loc) == [loc EXCEPT !.ref = "own", !.buf = <<>>]

\* the words a call reads from the bytes of its block
callLoad(kind, op, bytes) ==
    CASE kind = "aes"      -> <<>>
      [] kind = "blowfish" -> blockHalves(bytes)
      [] kind = "des"      -> desHalves(bytes)
      [] kind = "sm4"      -> sm4Words(bytes)
      [] kind = "twofish"  ->
           IF op = "Encrypt"
           THEN [w0 |-> bytesToUint32(bytes, 0), w1 |-> bytesToUint32(bytes, 4),
                 w2 |-> bytesToUint32(bytes, 8), w3 |-> bytesToUint32(bytes, 12)]
           ELSE [w2 |-> bytesToUint32(bytes, 0), w3 |-> bytesToUint32(bytes, 4),
                 w0 |-> bytesToUint32(bytes, 8), w1 |-> bytesToUint32(bytes, 12)]
      [] kind = "rc5"      ->
           [A |-> LittleEndianUint32(bytes, 0), B |-> LittleEndianUint32(bytes, 4)]

\* the number of steps between the read of the block and the write of the
\* result: the rounds, and the steps with the first and last keys
callSteps(kind, inst) ==
    CASE kind = "aes"      -> inst.rounds + 1
      [] kind = "blowfish" -> 17
      [] kind = "des"      -> 16
      [] kind = "sm4"      -> 32
      [] kind = "twofish"  -> 10
      [] kind = "rc5"      -> inst.rounds + 1

\* step x of Blowfish: the rounds, then the end of encryptBlock/decryptBlock
blowfishStep(op, b, lr, x) ==
    IF op = "Encrypt"
    THEN IF x < 16 THEN feistelRound(b, lr, x) ELSE feistelEnd(b, lr, 16, 17)
    ELSE IF x < 16 THEN feistelRound(b, lr, 17 - x) ELSE feistelEnd(b, lr, 1, 0)

\* step x of Twofish: the whitening, the eight passes of the loop, the
\* whitening
twofishStep(op, t, w, x) ==
    IF op = "Encrypt"
    THEN IF x = 0 THEN whitenLow(t, w)
         ELSE IF x < 9 THEN encryptPass(t, w, 4 + 4 * x)
         ELSE whitenHigh(t, w)
    ELSE IF x = 0 THEN whitenHigh(t, w)
         ELSE IF x < 9 THEN decryptPass(t, w, 40 - 4 * x)
         ELSE whitenLow(t, w)

\* A and B with the first two sub-keys added (Encrypt) or taken off (Decrypt)
rc5Keyed(op, r, st) ==
    IF op = "Encrypt"
    THEN [A |-> WAdd(st.A, r.subKeys[1]), B |-> WAdd(st.B, r.subKeys[2])]
    ELSE [A |-> WSub(st.A, r.subKeys[1]), B |-> WSub(st.B, r.subKeys[2])]

\* step x of RC5: Encrypt adds the first sub-keys and runs rounds 1 .. r,
\* Decrypt runs rounds r .. 1 and takes the first sub-keys off
rc5Step(op, r, st, x) ==
    IF op = "Encrypt"
    THEN IF x = 0 THEN rc5Keyed(op, r, st) ELSE encryptRound(r, st, x)
    ELSE IF x < r.rounds THEN decryptRound(r, st, r.rounds - x)
         ELSE rc5Keyed(op, r, st)

\* step x of a call on the words w (for AES on the state bytes)
callStep(kind, op, inst, w, x) ==
    CASE kind = "aes"      -> IF op = "Encrypt" THEN aesEncryptStep(inst, w, x)
                              ELSE aesDecryptStep(inst, w, x)
      [] kind = "blowfish" -> blowfishStep(op, inst, w, x)
      [] kind = "des"      -> desRound(inst, w, IF op = "Encrypt" THEN x ELSE 15 - x)
      [] kind = "sm4"      -> sm4Round(inst, w, IF op = "Encrypt" THEN x ELSE 31 - x)
      [] kind = "twofish"  -> twofishStep(op, inst, w, x)
      [] kind = "rc5"      -> rc5Step(op, inst, w, x)

\* the bytes a call writes to its result from the words
callStore(kind, op, w) ==
    CASE kind = "blowfish" -> halvesBlock(w)
      [] kind = "des"      -> desResult(w)
      [] kind = "sm4"      -> sm4Result(w)
      [] kind = "twofish"  -> IF op = "Encrypt"
                              THEN uint32ToBytes(w.w2, w.w3, w.w0, w.w1)
                              ELSE uint32ToBytes(w.w0, w.w1, w.w2, w.w3)
      [] kind = "rc5"      -> LittleEndianPut(w.A, w.B)

\* the locals of a call that has not begun
callIdle == [pc |-> "idle", op |-> "", ref |-> "none", buf |-> <<>>, w |-> <<>>,
             x |-> 0, out |-> Fail(NoError), met |-> FALSE]

\* the locals once the block is copied (or not) and its words are read
callRead(mem, op, held) ==
    [pc |-> "run", op |-> op, ref |-> held.ref, buf |-> held.buf,
     w |-> callLoad(mem.kind, op, IF held.ref = "own" THEN held.buf ELSE mem.input),
     x |-> 0, out |-> Fail(NoError), met |-> FALSE]

\* the start of Encrypt and Decrypt: the length is checked (and for RC5 the
\* word size), the block is copied and read
callBegin(mem, op) ==
    IF Len(mem.input) # callBlockSize(mem.kind, mem.inst)
    THEN [mem |-> mem,
          loc |-> [callIdle EXCEPT !.pc = "done", !.op = op,
                                   !.out = Fail(callBlockError(mem.kind, op))]]
    ELSE IF mem.kind = "rc5" /\ mem.inst.wordSize # 32
    THEN [mem |-> mem,
          loc |-> [callIdle EXCEPT !.pc = "done", !.op = op,
                                   !.out = Fail(ErrInvalidWordSize)]]
    ELSE [mem |-> mem,
          loc |-> callRead(mem, op, IF callCopies(mem.kind) THEN copyBlock(mem)
                                    ELSE [ref |-> "none", buf |-> <<>>])]

\* one step of the call: AES transforms its state slice in place; the others
\* work on their words and write the result with the last step
callNext(mem, loc) ==
    IF mem.kind = "aes"
    THEN store(mem, [loc EXCEPT !.x = loc.x + 1],
               callStep("aes", loc.op, mem.inst, deref(mem, loc), loc.x))
    ELSE [mem |-> mem,
          loc |-> [loc EXCEPT !.x = loc.x + 1,
                              !.w = callStep(mem.kind, loc.op, mem.inst, loc.w, loc.x)]]

\* the result is written: into the copy of the block, or for DES and SM4
\* into a new array
callWrite(mem, loc) ==
    IF mem.kind = "aes" THEN [mem |-> mem, loc |-> [loc EXCEPT !.pc = "return"]]
    ELSE store(mem,
               [(IF callCopies(mem.kind) THEN loc ELSE makeBlock(loc))
                   EXCEPT !.pc = "return"],
               callStore(mem.kind, loc.op, loc.w))

\* "return result, nil"
callReturn(mem, loc) == [loc EXCEPT !.pc = "done", !.out = Ok(deref(mem, loc))]

\* the constructor of a package
blockNew(kind, key) ==
    CASE kind = "aes"      -> aesNew(key)
      [] kind = "blowfish" -> blowfishNew(key)
      [] kind = "des"      -> desNew(key)
      [] kind = "sm4"      -> sm4New(key)
      [] kind = "twofish"  -> twofishNew(key)
      [] kind = "rc5"      -> rc5New(key)

\* Encrypt or Decrypt of a package as one call
blockCall(kind, op, inst, blk) ==
    CASE kind = "aes"      -> IF op = "Encrypt" THEN aesEncrypt(inst, blk)
                              ELSE aesDecrypt(inst, blk)
      [] kind = "blowfish" -> IF op = "Encrypt" THEN blowfishEncrypt(inst, blk)
                              ELSE blowfishDecrypt(inst, blk)
      [] kind = "des"      -> IF op = "Encrypt" THEN desEncrypt(inst, blk)
                              ELSE desDecrypt(inst, blk)
      [] kind = "sm4"      -> IF op = "Encrypt" THEN sm4Encrypt(inst, blk)
                              ELSE sm4Decrypt(inst, blk)
      [] kind = "twofish"  -> IF op = "Encrypt" THEN twofishEncrypt(inst, blk)
                              ELSE twofishDecrypt(inst, blk)
      [] kind = "rc5"      -> IF op = "Encrypt" THEN rc5Encrypt(inst, blk)
                              ELSE rc5Decrypt(inst, blk)

(***************************************************************************)
(* The GCM state machine: an adapter is built, one message is sealed, and  *)
(* the sealed bytes are opened, as they are or with one bit flipped,       *)
(* under the AAD of the call.                                              *)
(***************************************************************************)
\* the byte string p, p+1, ... of length n (mod 256)
Pattern(p, n) == Bytes([i \in 1..n |-> (p + i - 1) % 256])

\* the longest plaintext and the longest AAD a call is given
MaxPlainLen == 17
MaxAadLen   == 17

XorCipher(key)    == [kind |-> "xor", key |-> key]
RotAddCipher(key) == [kind |-> "rotadd", key |-> key]

\* two 128-bit ciphers and a 64-bit one, which GCM rejects
GcmCiphers ==
    { XorCipher(Pattern(163, 16)), RotAddCipher(Pattern(29, 16)),
      RotAddCipher(Pattern(1, 8)) }

GcmNonces == { Pattern(1, 12), Pattern(200, 11) }

\* plaintexts: empty, one byte, a block and a byte
GcmPlaintexts == { Pattern(65, n) : n \in {0, 1, MaxPlainLen} }

\* AADs: empty, <<1>>, <<1, 0>> (a trailing zero byte more), more than a block
GcmAads == { <<>>, <<1>>, <<1, 0>> } \cup { Pattern(1, MaxAadLen) }

\* the tag sizes asked of NewGCMWithTagSize: 4..16 and one beyond either end
GcmTagSizes == 3..17

NoCall == [called |-> FALSE]

GcmIdle ==
    /\ gcm = [made |-> FALSE]
    /\ sealed = NoCall
    /\ opened = NoCall

\* s with bit b (0 = the top bit of the first byte) flipped
FlipBit(s, b) ==
    [s EXCEPT ![(b \div 8) + 1] = Xor(s[(b \div 8) + 1], 2 ^ (7 - (b % 8)))]

GcmNew(cipher, tagSize) ==
    /\ ~gcm.made
    /\ gcm' = [made |-> TRUE, res |-> NewGCMWithTagSize(cipher, tagSize)]
    /\ UNCHANGED <<sealed, opened>>
    /\ UNCHANGED <<Sm3Vars, Sm2Vars, PadVars, ModeVars, CipherVars>>

GcmSeal(nonce, plaintext, aad) ==
    /\ gcm.made /\ gcm.res.err = NoError
    /\ ~sealed.called
    /\ sealed' = [called |-> TRUE, nonce |-> nonce, pt |-> plaintext, aad |-> aad,
                  res |-> Seal(gcm.res.val, nonce, plaintext, aad)]
    /\ UNCHANGED <<gcm, opened>>
    /\ UNCHANGED <<Sm3Vars, Sm2Vars, PadVars, ModeVars, CipherVars>>

\* Open of the sealed bytes under the AAD aad
GcmOpen(aad) ==
    /\ sealed.called /\ sealed.res.err = NoError
    /\ ~opened.called
    /\ opened' = [called |-> TRUE, nonce |-> sealed.nonce, ct |-> sealed.res.val,
                  aad |-> aad, flip |-> -1,
                  res |-> Open(gcm.res.val, sealed.nonce, sealed.res.val, aad)]
    /\ UNCHANGED <<gcm, sealed>>
    /\ UNCHANGED <<Sm3Vars, Sm2Vars, PadVars, ModeVars, CipherVars>>

\* Open of the sealed bytes with bit b flipped, under the AAD of the Seal
GcmOpenFlipped(b) ==
    /\ sealed.called /\ sealed.res.err = NoError
    /\ ~opened.called
    /\ b < 8 * Len(sealed.res.val)
    /\ LET ct == FlipBit(sealed.res.val, b)
       IN  opened' = [called |-> TRUE, nonce |-> sealed.nonce, ct |-> ct,
                      aad |-> sealed.aad, flip |-> b,
                      res |-> Open(gcm.res.val, sealed.nonce, ct, sealed.aad)]
    /\ UNCHANGED <<gcm, sealed>>
    /\ UNCHANGED <<Sm3Vars, Sm2Vars, PadVars, ModeVars, CipherVars>>

(***************************************************************************)
(* The SM3 state machine: one digest object, written to in chunks, summed  *)
(* and reset.  The message is byte i = MsgByte(i), so that a state is      *)
(* known by how much was written.                                          *)
(***************************************************************************)
\* the longest message written between two Resets
MaxMsgLen == 130

\* the chunk sizes of a Write: empty, within a block, a block, beyond a block
ChunkSizes == {0, 1, BlockSize - 1, BlockSize, BlockSize + 1, 2 * BlockSize + 1}

\* the longest message after which the digest is reset and used again
MaxResetLen == 2

MsgByte(i) == (97 + 5 * i) % 256

\* bytes from + 1 .. from + n of the message
Chunk(from, n) == Bytes([i \in 1..n |-> MsgByte(from + i)])

Sm3Idle ==
    /\ sm3 = New
    /\ written = <<>>
    /\ summed = [n |-> 0, earlier |-> FALSE]

Sm3Write(n) ==
    /\ Len(written) + n <= MaxMsgLen
    /\ LET p == Chunk(Len(written), n)
       IN  /\ sm3' = Write(sm3, p)
           /\ written' = written \o p
    /\ summed' = [n |-> 0, earlier |-> summed.earlier \/ summed.n > 0]
    /\ UNCHANGED <<GcmVars, Sm2Vars, PadVars, ModeVars, CipherVars>>

Sm3Summed(r) ==
    /\ sm3' = r.d
    /\ summed' = [n |-> summed.n + 1, earlier |-> summed.earlier,
                  res |-> r.res, d0 |-> r.d0]

\* Sum, at most twice in a row
Sm3Sum ==
    /\ summed.n < 2
    /\ Sm3Summed(Sum(sm3))
    /\ UNCHANGED written
    /\ UNCHANGED <<GcmVars, Sm2Vars, PadVars, ModeVars, CipherVars>>

Sm3Reset ==
    /\ Len(written) <= MaxResetLen
    /\ sm3' = Reset(sm3)
    /\ written' = <<>>
    /\ summed' = [n |-> 0, earlier |-> FALSE]
    /\ UNCHANGED <<GcmVars, Sm2Vars, PadVars, ModeVars, CipherVars>>

Sm3Next ==
    \/ \E n \in ChunkSizes : Sm3Write(n)
    \/ Sm3Sum
    \/ Sm3Reset

(***************************************************************************)
(* The SM2 state machine: a private key object is made or decoded, and     *)
(* with it a message is encrypted and the ciphertext decrypted, a digest   *)
(* is signed and the signature verified, or the public key is encoded and  *)
(* the encoding decoded.  The functions keep nothing between calls, so one *)
(* call and its inverse per key object is every case there is.             *)
(***************************************************************************)
\* the private key values d of the key objects written as struct literals
Sm2KeyValues == {0, sm2P256Curve.N, sm2P256Curve.N + 1}

\* the byte strings given to DecodePrivateKey: empty, zero, values with and
\* without a leading zero byte, and the values around n
Sm2KeyData ==
    {<<>>, <<0>>, <<1>>, <<2>>, <<0, 93>>}
        \cup {BigBytes(d) : d \in (sm2P256Curve.N - 2)..(sm2P256Curve.N + 1)}

\* the plaintext lengths: empty, short, beyond one hash output, and the
\* length at which x2 || M || y2 is 55 bytes long
Sm2PlainLens == {0, 1, 2, Size + 1, BlockSize - 9 - 2 * ByteLen}

Sm2Plaintexts == {<<0>>, <<0, 0>>} \cup {Pattern(65, n) : n \in Sm2PlainLens}

\* the k that randFieldElement returns to Encrypt
Sm2EncryptDraws == {1, 2, 150, sm2P256Curve.N - 1}

\* the digests signed: e = 0, e < n, e > n
Sm2Digests == {<<>>, <<5>>, <<1, 44>>}

NoKey == [nil |-> TRUE]

Sm2Idle ==
    /\ sm2key = NoKey
    /\ sm2 = [op |-> "none"]

\* Sign is at "goto retry"
Signing == sm2.op = "Sign" /\ sm2.res = Retry

\* a key object has been made and nothing was done with it yet
FreshKey == sm2key # NoKey /\ sm2.op \in {"PrivateKey", "DecodePrivateKey"}

\* &PrivateKey{D: d, PublicKey: d * G}
Sm2NewKey(d) ==
    /\ sm2key = NoKey
    /\ sm2key' = PrivateKey(d)
    /\ sm2' = [op |-> "PrivateKey"]
    /\ UNCHANGED <<GcmVars, Sm3Vars, PadVars, ModeVars, CipherVars>>

Sm2Decoded(data, res) ==
    /\ sm2key' = IF res.err = NoError THEN res.val ELSE sm2key
    /\ sm2' = [op |-> "DecodePrivateKey", data |-> data, res |-> res]

Sm2DecodePrivateKey(data) ==
    /\ sm2key = NoKey
    /\ Sm2Decoded(data, DecodePrivateKey(data))
    /\ UNCHANGED <<GcmVars, Sm3Vars, PadVars, ModeVars, CipherVars>>

Sm2Encrypt(plaintext, k) ==
    /\ FreshKey
    /\ sm2' = [op |-> "Encrypt", plaintext |-> plaintext,
               res |-> Encrypt(PublicKey(sm2key), plaintext, k)]
    /\ UNCHANGED sm2key
    /\ UNCHANGED <<GcmVars, Sm3Vars, PadVars, ModeVars, CipherVars>>

\* Decrypt of what the last Encrypt returned
Sm2Decrypt ==
    /\ sm2.op = "Encrypt"
    /\ sm2.res.err = NoError
    /\ sm2' = [op |-> "Decrypt", plaintext |-> sm2.plaintext,
               ciphertext |-> sm2.res.val, res |-> Decrypt(sm2key, sm2.res.val)]
    /\ UNCHANGED sm2key
    /\ UNCHANGED <<GcmVars, Sm3Vars, PadVars, ModeVars, CipherVars>>

Sm2Sign(digest, k) ==
    /\ FreshKey
    /\ sm2' = [op |-> "Sign", digest |-> digest, k |-> k,
               res |-> Sign(sm2key, digest, k)]
    /\ UNCHANGED sm2key
    /\ UNCHANGED <<GcmVars, Sm3Vars, PadVars, ModeVars, CipherVars>>

\* Sign after "goto retry": the next k
Sm2SignAgain(k) ==
    /\ Signing
    /\ sm2' = [op |-> "Sign", digest |-> sm2.digest, k |-> k,
               res |-> Sign(sm2key, sm2.digest, k)]
    /\ UNCHANGED sm2key
    /\ UNCHANGED <<GcmVars, Sm3Vars, PadVars, ModeVars, CipherVars>>

\* Verify of what the last Sign returned, for the digest it signed
Sm2Verify ==
    /\ sm2.op = "Sign"
    /\ sm2.res.err = NoError
    /\ sm2' = [op |-> "Verify", digest |-> sm2.digest, signature |-> sm2.res.val,
               ok |-> Verify(PublicKey(sm2key), sm2.digest, sm2.res.val)]
    /\ UNCHANGED sm2key
    /\ UNCHANGED <<GcmVars, Sm3Vars, PadVars, ModeVars, CipherVars>>

Sm2EncodePublicKey ==
    /\ FreshKey
    /\ sm2' = [op |-> "EncodePublicKey", res |-> EncodePublicKey(PublicKey(sm2key))]
    /\ UNCHANGED sm2key
    /\ UNCHANGED <<GcmVars, Sm3Vars, PadVars, ModeVars, CipherVars>>

\* DecodePublicKey of what the last EncodePublicKey returned
Sm2DecodePublicKey ==
    /\ sm2.op = "EncodePublicKey"
    /\ sm2' = [op |-> "DecodePublicKey", data |-> sm2.res,
               res |-> DecodePublicKey(sm2.res)]
    /\ UNCHANGED sm2key
    /\ UNCHANGED <<GcmVars, Sm3Vars, PadVars, ModeVars, CipherVars>>

Sm2Next ==
    \/ \E d \in Sm2KeyValues : Sm2NewKey(d)
    \/ \E data \in Sm2KeyData : Sm2DecodePrivateKey(data)
    \/ \E plaintext \in Sm2Plaintexts, k \in Sm2EncryptDraws : Sm2Encrypt(plaintext, k)
    \/ Sm2Decrypt
    \/ \E digest \in Sm2Digests, k \in randFieldElement : Sm2Sign(digest, k)
    \/ \E k \in randFieldElement : Sm2SignAgain(k)
    \/ Sm2Verify
    \/ Sm2EncodePublicKey
    \/ Sm2DecodePublicKey

(***************************************************************************)
(* The padding schemes (package padding).  pad functions return            *)
(* (bytes, error); byte(padding) is padding mod 256.                       *)
(***************************************************************************)
ErrEmptyData       == "empty data"
ErrPaddingSize     == "invalid padding size"
ErrISO7816Padding  == "invalid ISO7816 padding"
ErrNo80            == "padding byte 0x80 not found"
ErrANSIX923Padding == "invalid ANSI X.923 padding"
ErrM1Padding       == "invalid M1 padding"
ErrTBCPadding      == "invalid TBC padding"
ErrInvalidPadding  == "invalid_padding"

\* bytes.Repeat([]byte{b}, n)
Repeat(b, n) == Bytes([i \in 1..n |-> b])

\* PKCS7Padding without the full block on aligned input
PKCS7PaddingAligned(data, blockSize) ==
    Ok(data \o Repeat(((blockSize - (Len(data) % blockSize)) % blockSize) % 256,
                      (blockSize - (Len(data) % blockSize)) % blockSize))

\* PKCS7Padding: padding copies of byte(padding)
PKCS7Padding(data, blockSize) ==
    Ok(data \o Repeat((blockSize - (Len(data) % blockSize)) % 256,
                      blockSize - (Len(data) % blockSize)))

\* M1Padding: 0x80, then padding-1 zero bytes
M1Padding(data, blockSize) ==
    Ok(data \o <<128>> \o Repeat(0, (blockSize - (Len(data) % blockSize)) - 1))

\* M1PlusZeroPadding: 0x80 always, then zero bytes up to the block boundary
M1PlusZeroPadding(data, blockSize) ==
    LET paddedData == data \o <<128>>
        padding    == blockSize - (Len(paddedData) % blockSize)
    IN  IF padding = blockSize THEN Ok(paddedData)
        ELSE Ok(paddedData \o Repeat(0, padding))

\* M2Padding: zero bytes, none on aligned input
M2Padding(data, blockSize) ==
    LET padding == blockSize - (Len(data) % blockSize)
    IN  Ok(data \o Repeat(0, IF padding = blockSize THEN 0 ELSE padding))

\* ISO7816Padding: padtext := make([]byte, padding); padtext[0] = 0x80
ISO7816Padding(data, blockSize) ==
    Ok(data \o [Repeat(0, blockSize - (Len(data) % blockSize)) EXCEPT ![1] = 128])

\* ANSIX923Padding: zero bytes, the last one byte(padding)
ANSIX923Padding(data, blockSize) ==
    LET padding == blockSize - (Len(data) % blockSize)
    IN  Ok(data \o [Repeat(0, padding) EXCEPT ![padding] = padding % 256])

\* ZeroPadding: blockSize - len % blockSize zero bytes
ZeroPadding(data, blockSize) ==
    Ok(data \o Repeat(0, blockSize - (Len(data) % blockSize)))

\* PKCS5Padding: PKCS#7 with block size 8
PKCS5Padding(data) == PKCS7Padding(data, 8)

\* ISO10126Padding: padding-1 bytes read from crypto/rand (here the bytes
\* random, random+1, ...), then byte(padding)
ISO10126Padding(data, blockSize, random) ==
    LET padding == blockSize - (Len(data) % blockSize)
    IN  Ok(data \o [i \in 1..padding |->
                      IF i = padding THEN padding % 256
                      ELSE (random + i - 1) % 256])

\* TBCPadding: padding copies of the complement of the last data byte
\* (of 0x00 for empty data)
TBCPadding(data, blockSize) ==
    Ok(data \o Repeat(255 - (IF Len(data) > 0 THEN data[Len(data)] ELSE 0),
                      blockSize - (Len(data) % blockSize)))

\* PKCS7UnPadding: the count byte is only compared with the length
PKCS7UnPadding(data) ==
    IF Len(data) = 0 THEN Fail(ErrEmptyData)
    ELSE IF data[Len(data)] > Len(data) THEN Fail(ErrPaddingSize)
    ELSE Ok(Slice(data, 0, Len(data) - data[Len(data)]))

\* PKCS5UnPadding
PKCS5UnPadding(data) == PKCS7UnPadding(data)

RECURSIVE lastNot(_, _, _, _)
RECURSIVE lastNotIn(_, _, _, _, _)
\* where a loop that goes down from index hi (1-based) to lo over bytes equal
\* to b stops: the last index in lo..hi of a byte that is not b, or 0.  The
\* range is halved until it is one byte.
lastNotIn(upper, data, b, lo, mid) ==
    IF upper # 0 THEN upper ELSE lastNot(data, b, lo, mid)

lastNot(data, b, lo, hi) ==
    IF lo > hi THEN 0
    ELSE IF lo = hi THEN (IF data[lo] # b THEN lo ELSE 0)
    ELSE lastNotIn(lastNot(data, b, ((lo + hi) \div 2) + 1, hi),
                   data, b, lo, (lo + hi) \div 2)

\* the loop of ISO7816UnPadding, which goes down over the zero bytes and
\* stops at index at (1-based; 0: at no byte)
ISO7816Scan(data, at) ==
    IF at = 0 THEN Fail(ErrNo80)
    ELSE IF data[at] = 128 THEN Ok(Slice(data, 0, at - 1))
    ELSE Fail(ErrISO7816Padding)

ISO7816UnPadding(data) ==
    IF Len(data) = 0 THEN Fail(ErrEmptyData)
    ELSE ISO7816Scan(data, lastNot(data, 0, 1, Len(data)))

\* ANSIX923UnPadding: the bytes before the count byte must be zero
ANSIX923UnPadding(data) ==
    IF Len(data) = 0 THEN Fail(ErrEmptyData)
    ELSE IF data[Len(data)] > Len(data) THEN Fail(ErrPaddingSize)
    ELSE IF \E i \in (Len(data) - data[Len(data)])..(Len(data) - 2) :
                data[i + 1] # 0
         THEN Fail(ErrANSIX923Padding)
    ELSE Ok(Slice(data, 0, Len(data) - data[Len(data)]))

\* the loop of M1UnPadding, which goes down over the zero bytes and stops at
\* index at (1-based; 0: at no byte)
M1Scan(data, at) ==
    IF at = 0 THEN Fail(ErrNo80)
    ELSE IF data[at] = 128 THEN Ok(Slice(data, 0, at - 1))
    ELSE Fail(ErrM1Padding)

M1UnPadding(data) ==
    IF Len(data) = 0 THEN Fail(ErrEmptyData)
    ELSE M1Scan(data, lastNot(data, 0, 1, Len(data)))

\* the loop of TBCUnPadding, which goes down over the bytes equal to
\* complement and stops at index at (1-based; 0: at no byte)
TBCScan(data, at) ==
    IF at = 0 THEN Fail(ErrTBCPadding)
    ELSE Ok(Slice(data, 0, at))

\* TBCUnPadding: complement is the complement of the LAST byte of data
TBCUnPadding(data) ==
    IF Len(data) = 0 THEN Fail(ErrEmptyData)
    ELSE TBCScan(data, lastNot(data, 255 - data[Len(data)], 1, Len(data)))

\* padding.PKCS7Unpadding (pkcs7.go): every fill byte is compared
PKCS7Unpadding(data) ==
    IF Len(data) = 0 THEN Fail(ErrInvalidPadding)
    ELSE IF data[Len(data)] > Len(data) THEN Fail(ErrInvalidPadding)
    ELSE IF \E i \in (Len(data) - data[Len(data)])..(Len(data) - 1) :
                data[i + 1] # data[Len(data)]
         THEN Fail(ErrInvalidPadding)
    ELSE Ok(Slice(data, 0, Len(data) - data[Len(data)]))

(***************************************************************************)
(* The padding state machine: one pad call, and the unpad call on what it  *)
(* returned; or one PKCS#7 unpad call on bytes that no pad call made.      *)
(***************************************************************************)
\* the longest data given to a pad or unpad call
MaxPadLen == 3

\* the byte values of the data: zero, small counts, the 0x80 marker, 0xff
PadAlphabet == {0, 1, 2, 128, 255}

PadData == UNION { [1..n -> PadAlphabet] : n \in 0..MaxPadLen }

\* block sizes: the smallest ones, the DES and largest one-byte sizes, and
\* the first whose count does not fit a byte
PadBlockSizes == {1, 2, 3, 4, 8, 255, 256}

\* the bytes crypto/rand gives to ISO10126Padding start at one of these
PadRandoms == {0, 171}

PadSchemes ==
    {"PKCS7", "ISO7816", "ANSIX923", "Zero", "M1", "M1PlusZero", "M2", "TBC"}

UnpadSchemes == {"PKCS7", "PKCS5", "ISO7816", "ANSIX923", "M1", "TBC"}

PKCS7Unpadders == {"PKCS7UnPadding", "PKCS7Unpadding"}

\* the pad function of a scheme
Pad(scheme, data, blockSize) ==
    CASE scheme = "PKCS7"      -> PKCS7Padding(data, blockSize)
      [] scheme = "ISO7816"    -> ISO7816Padding(data, blockSize)
      [] scheme = "ANSIX923"   -> ANSIX923Padding(data, blockSize)
      [] scheme = "Zero"       -> ZeroPadding(data, blockSize)
      [] scheme = "M1"         -> M1Padding(data, blockSize)
      [] scheme = "M1PlusZero" -> M1PlusZeroPadding(data, blockSize)
      [] scheme = "M2"         -> M2Padding(data, blockSize)
      [] scheme = "TBC"        -> TBCPadding(data, blockSize)

\* the unpad function of a scheme
Unpad(scheme, data) ==
    CASE scheme = "PKCS7"    -> PKCS7UnPadding(data)
      [] scheme = "PKCS5"    -> PKCS5UnPadding(data)
      [] scheme = "ISO7816"  -> ISO7816UnPadding(data)
      [] scheme = "ANSIX923" -> ANSIX923UnPadding(data)
      [] scheme = "M1"       -> M1UnPadding(data)
      [] scheme = "TBC"      -> TBCUnPadding(data)

PadIdle == pad = [op |-> "none"]

PadCall(scheme, data, blockSize) ==
    /\ pad.op = "none"
    /\ pad' = [op |-> "pad", scheme |-> scheme, data |-> Bytes(data),
               blockSize |-> blockSize,
               res |-> Pad(scheme, Bytes(data), blockSize)]
    /\ UNCHANGED <<GcmVars, Sm3Vars, Sm2Vars, ModeVars, CipherVars>>

PadPKCS5(data) ==
    /\ pad.op = "none"
    /\ pad' = [op |-> "pad", scheme |-> "PKCS5", data |-> Bytes(data),
               blockSize |-> 8, res |-> PKCS5Padding(Bytes(data))]
    /\ UNCHANGED <<GcmVars, Sm3Vars, Sm2Vars, ModeVars, CipherVars>>

PadISO10126(data, blockSize, random) ==
    /\ pad.op = "none"
    /\ pad' = [op |-> "pad", scheme |-> "ISO10126", data |-> Bytes(data),
               blockSize |-> blockSize,
               res |-> ISO10126Padding(Bytes(data), blockSize, random)]
    /\ UNCHANGED <<GcmVars, Sm3Vars, Sm2Vars, ModeVars, CipherVars>>

\* the scheme's unpad on what its pad returned
PadUnpad ==
    /\ pad.op = "pad"
    /\ pad.scheme \in UnpadSchemes
    /\ pad.res.err = NoError
    /\ pad' = [op |-> "unpad", scheme |-> pad.scheme, data |-> pad.data,
               blockSize |-> pad.blockSize, padded |-> pad.res.val,
               res |-> Unpad(pad.scheme, pad.res.val)]
    /\ UNCHANGED <<GcmVars, Sm3Vars, Sm2Vars, ModeVars, CipherVars>>

\* a PKCS#7 unpad function on arbitrary bytes
PadUnpadRaw(fn, data) ==
    /\ pad.op = "none"
    /\ pad' = [op |-> "unpadRaw", scheme |-> fn, data |-> Bytes(data),
               res |-> IF fn = "PKCS7UnPadding" THEN PKCS7UnPadding(Bytes(data))
                       ELSE PKCS7Unpadding(Bytes(data))]
    /\ UNCHANGED <<GcmVars, Sm3Vars, Sm2Vars, ModeVars, CipherVars>>

PadNext ==
    \/ \E s \in PadSchemes, d \in PadData, b \in PadBlockSizes : PadCall(s, d, b)
    \/ \E d \in PadData : PadPKCS5(d)
    \/ \E d \in PadData, b \in PadBlockSizes, r \in PadRandoms : PadISO10126(d, b, r)
    \/ PadUnpad
    \/ \E fn \in PKCS7Unpadders, d \in PadData : PadUnpadRaw(fn, d)

(***************************************************************************)
(* The ECB, CBC, CFB and OFB adapters (package modes).  Encrypt and        *)
(* Decrypt return (bytes, error); the model's result also holds the number *)
(* of block-cipher calls made and the working register (prev, register,    *)
(* counter) as the call left it.                                           *)
(***************************************************************************)
ErrInvalidBlockSize == "invalid_block_size"

\* a call that returned out, after calls block-cipher calls
Done(out, register, calls) ==
    [val |-> out, err |-> NoError, calls |-> calls, register |-> register]

\* a call that returned (nil, e) before its loop
Refused(e) == [val |-> <<>>, err |-> e, calls |-> 0, register |-> <<>>]

\* NewECB
NewECB(cipher) == [cipher |-> cipher]

RECURSIVE ECBEncryptLoop(_, _, _, _, _)
\* the loop of ECB.Encrypt at offset i
ECBEncryptLoop(cipher, plaintext, ciphertext, i, calls) ==
    IF i >= Len(plaintext) \/ Len(ciphertext) < 0
    THEN Done(ciphertext, <<>>, calls)
    ELSE ECBEncryptLoop(cipher, plaintext,
             Copy(ciphertext, i,
                  CipherEncrypt(cipher,
                                Slice(plaintext, i, i + CipherBlockSize(cipher)))),
             i + CipherBlockSize(cipher), calls + 1)

\* ECB.Encrypt with the length check after the loop over the whole blocks
ECBEncryptLate(e, plaintext) ==
    IF Len(plaintext) % CipherBlockSize(e.cipher) # 0
    THEN [Refused(ErrInvalidDataSize) EXCEPT
              !.calls = Len(plaintext) \div CipherBlockSize(e.cipher)]
    ELSE ECBEncryptLoop(e.cipher, plaintext, Zeros(Len(plaintext)), 0, 0)

\* ECB.Encrypt
ECBEncrypt(e, plaintext) ==
    IF Len(plaintext) % CipherBlockSize(e.cipher) # 0
    THEN Refused(ErrInvalidDataSize)
    ELSE ECBEncryptLoop(e.cipher, plaintext, Zeros(Len(plaintext)), 0, 0)

RECURSIVE ECBDecryptLoop(_, _, _, _, _)
\* the loop of ECB.Decrypt at offset i
ECBDecryptLoop(cipher, ciphertext, plaintext, i, calls) ==
    IF i >= Len(ciphertext) \/ Len(plaintext) < 0
    THEN Done(plaintext, <<>>, calls)
    ELSE ECBDecryptLoop(cipher, ciphertext,
             Copy(plaintext, i,
                  CipherDecrypt(cipher,
                                Slice(ciphertext, i, i + CipherBlockSize(cipher)))),
             i + CipherBlockSize(cipher), calls + 1)

\* ECB.Decrypt
ECBDecrypt(e, ciphertext) ==
    IF Len(ciphertext) % CipherBlockSize(e.cipher) # 0
    THEN Refused(ErrInvalidDataSize)
    ELSE ECBDecryptLoop(e.cipher, ciphertext, Zeros(Len(ciphertext)), 0, 0)

\* NewCBC: the IV is copied
NewCBC(cipher, iv) ==
    IF Len(iv) # CipherBlockSize(cipher) THEN Fail(ErrInvalidIV)
    ELSE Ok([cipher |-> cipher, iv |-> DuplicateSlice(iv)])

\* one round of CBC.Encrypt without the chaining: E(plaintext block)
cbcEncryptBlockUnchained(cipher, plaintext, prev, i) ==
    CipherEncrypt(cipher, Slice(plaintext, i, i + CipherBlockSize(cipher)))

\* one round of CBC.Encrypt: E(plaintext block xor prev)
cbcEncryptBlock(cipher, plaintext, prev, i) ==
    CipherEncrypt(cipher,
                  XORBytes(Zeros(CipherBlockSize(cipher)),
                           Slice(plaintext, i, i + CipherBlockSize(cipher)), prev))

RECURSIVE CBCEncryptLoop(_, _, _, _, _, _)
RECURSIVE cbcEncryptNext(_, _, _, _, _, _)
\* the loop of CBC.Encrypt at offset i with the chaining block prev
CBCEncryptLoop(cipher, plaintext, ciphertext, prev, i, calls) ==
    IF i >= Len(plaintext) \/ Len(ciphertext) < 0
    THEN Done(ciphertext, prev, calls)
    ELSE cbcEncryptNext(cipher, plaintext, ciphertext,
                        cbcEncryptBlock(cipher, plaintext, prev, i), i, calls)

\* the rest of the round: the encrypted block goes to the output and to prev
cbcEncryptNext(cipher, plaintext, ciphertext, encryptedBlock, i, calls) ==
    CBCEncryptLoop(cipher, plaintext, Copy(ciphertext, i, encryptedBlock),
                   encryptedBlock, i + CipherBlockSize(cipher), calls + 1)

\* CBC.Encrypt
CBCEncrypt(c, plaintext) ==
    IF Len(plaintext) % CipherBlockSize(c.cipher) # 0
    THEN Refused(ErrInvalidDataSize)
    ELSE CBCEncryptLoop(c.cipher, plaintext, Zeros(Len(plaintext)),
                        DuplicateSlice(c.iv), 0, 0)

RECURSIVE CBCDecryptLoop(_, _, _, _, _, _)
\* the loop of CBC.Decrypt at offset i with the chaining block prev
CBCDecryptLoop(cipher, ciphertext, plaintext, prev, i, calls) ==
    IF i >= Len(ciphertext) \/ Len(plaintext) < 0
    THEN Done(plaintext, prev, calls)
    ELSE CBCDecryptLoop(cipher, ciphertext,
             Copy(plaintext, i,
                  XORBytes(Zeros(CipherBlockSize(cipher)),
                           CipherDecrypt(cipher,
                               Slice(ciphertext, i, i + CipherBlockSize(cipher))),
                           prev)),
             Slice(ciphertext, i, i + CipherBlockSize(cipher)),
             i + CipherBlockSize(cipher), calls + 1)

\* CBC.Decrypt
CBCDecrypt(c, ciphertext) ==
    IF Len(ciphertext) % CipherBlockSize(c.cipher) # 0
    THEN Refused(ErrInvalidDataSize)
    ELSE CBCDecryptLoop(c.cipher, ciphertext, Zeros(Len(ciphertext)),
                        DuplicateSlice(c.iv), 0, 0)

\* NewCFB: the IV is copied; the segment size is the block size
NewCFB(cipher, iv) ==
    IF Len(iv) # CipherBlockSize(cipher) THEN Fail(ErrInvalidIV)
    ELSE Ok([cipher |-> cipher, iv |-> DuplicateSlice(iv),
             segmentSize |-> CipherBlockSize(cipher)])

\* CFB.WithSegmentSize
WithSegmentSize(c, segmentSize) ==
    IF segmentSize <= 0 \/ segmentSize > CipherBlockSize(c.cipher)
    THEN Fail(ErrInvalidBlockSize)
    ELSE Ok([c EXCEPT !.segmentSize = segmentSize])

\* the register update of CFB.Encrypt and CFB.Decrypt: shift left by the
\* segment size and put the ciphertext segment at the end, or (segment size
\* = block size) copy the segment over the register
cfbShift(c, register, segment) ==
    IF CipherBlockSize(c.cipher) > c.segmentSize
    THEN Copy(Copy(register, 0,
                   Slice(register, c.segmentSize, CipherBlockSize(c.cipher))),
              CipherBlockSize(c.cipher) - c.segmentSize, segment)
    ELSE Copy(register, 0, segment)

\* n of a CFB round: the segment size, or what is left of the input
cfbCount(c, data, i) ==
    IF i + c.segmentSize > Len(data) THEN Len(data) - i ELSE c.segmentSize

\* XORBytes(out[i:i+n], in[i:i+n], encrypted[:n])
cfbSegment(in, encrypted, i, n) ==
    XORBytes(Zeros(n), Slice(in, i, i + n), Slice(encrypted, 0, n))

RECURSIVE CFBEncryptLoop(_, _, _, _, _, _)
RECURSIVE cfbEncryptNext(_, _, _, _, _, _, _)
\* the loop of CFB.Encrypt at offset i
CFBEncryptLoop(c, plaintext, ciphertext, register, i, calls) ==
    IF i >= Len(plaintext) \/ Len(ciphertext) < 0 \/ Len(register) < 0
    THEN Done(ciphertext, register, calls)
    ELSE cfbEncryptNext(c, plaintext, ciphertext, register,
                        cfbSegment(plaintext, CipherEncrypt(c.cipher, register),
                                   i, cfbCount(c, plaintext, i)),
                        i, calls)

\* the rest of the round: the ciphertext segment goes to the output and
\* into the register
cfbEncryptNext(c, plaintext, ciphertext, register, segment, i, calls) ==
    CFBEncryptLoop(c, plaintext, Copy(ciphertext, i, segment),
                   cfbShift(c, register, segment), i + c.segmentSize, calls + 1)

\* CFB.Encrypt
CFBEncrypt(c, plaintext) ==
    CFBEncryptLoop(c, plaintext, Zeros(Len(plaintext)), DuplicateSlice(c.iv), 0, 0)

RECURSIVE CFBDecryptLoop(_, _, _, _, _, _)
\* the loop of CFB.Decrypt at offset i: the register takes the ciphertext
\* segment that was read
CFBDecryptLoop(c, ciphertext, plaintext, register, i, calls) ==
    IF i >= Len(ciphertext) \/ Len(plaintext) < 0 \/ Len(register) < 0
    THEN Done(plaintext, register, calls)
    ELSE CFBDecryptLoop(c, ciphertext,
             Copy(plaintext, i,
                  cfbSegment(ciphertext, CipherEncrypt(c.cipher, register),
                             i, cfbCount(c, ciphertext, i))),
             cfbShift(c, register,
                      Slice(ciphertext, i, i + cfbCount(c, ciphertext, i))),
             i + c.segmentSize, calls + 1)

\* CFB.Decrypt as the same operation as CFB.Encrypt (as it is in OFB and CTR)
CFBDecryptAsEncrypt(c, ciphertext) == CFBEncrypt(c, ciphertext)

\* CFB.Decrypt
CFBDecrypt(c, ciphertext) ==
    CFBDecryptLoop(c, ciphertext, Zeros(Len(ciphertext)), DuplicateSlice(c.iv), 0, 0)

\* NewOFB: the IV is copied
NewOFB(cipher, iv) ==
    IF Len(iv) # CipherBlockSize(cipher) THEN Fail(ErrInvalidIV)
    ELSE Ok([cipher |-> cipher, iv |-> DuplicateSlice(iv)])

\* OFB.Encrypt after its loop: the last, incomplete block
ofbTail(cipher, plaintext, ciphertext, register, i, calls) ==
    IF i < Len(plaintext)
    THEN Done(Copy(ciphertext, i,
                   XORBytes(Zeros(Len(plaintext) - i),
                            Slice(plaintext, i, Len(plaintext)),
                            CipherEncrypt(cipher, register))),
              register, calls + 1)
    ELSE Done(ciphertext, register, calls)

RECURSIVE OFBLoop(_, _, _, _, _, _)
RECURSIVE ofbNext(_, _, _, _, _, _)
\* the loop of OFB.Encrypt over the complete blocks, at offset i
OFBLoop(cipher, plaintext, ciphertext, register, i, calls) ==
    IF i + CipherBlockSize(cipher) > Len(plaintext) \/ Len(ciphertext) < 0
    THEN ofbTail(cipher, plaintext, ciphertext, register, i, calls)
    ELSE ofbNext(cipher, plaintext, ciphertext,
                 CipherEncrypt(cipher, register), i, calls)

\* the round with the ciphertext block as the next register
ofbNextCiphertext(cipher, plaintext, ciphertext, encryptedRegister, i, calls) ==
    OFBLoop(cipher, plaintext,
            Copy(ciphertext, i,
                 XORBytes(Zeros(CipherBlockSize(cipher)),
                          Slice(plaintext, i, i + CipherBlockSize(cipher)),
                          encryptedRegister)),
            XORBytes(Zeros(CipherBlockSize(cipher)),
                     Slice(plaintext, i, i + CipherBlockSize(cipher)),
                     encryptedRegister),
            i + CipherBlockSize(cipher), calls + 1)

\* the rest of the round: the encrypted register is the keystream block and
\* the next register
ofbNext(cipher, plaintext, ciphertext, encryptedRegister, i, calls) ==
    OFBLoop(cipher, plaintext,
            Copy(ciphertext, i,
                 XORBytes(Zeros(CipherBlockSize(cipher)),
                          Slice(plaintext, i, i + CipherBlockSize(cipher)),
                          encryptedRegister)),
            encryptedRegister, i + CipherBlockSize(cipher), calls + 1)

\* OFB.Encrypt
OFBEncrypt(o, plaintext) ==
    OFBLoop(o.cipher, plaintext, Zeros(Len(plaintext)), DuplicateSlice(o.iv), 0, 0)

\* OFB.Decrypt
OFBDecrypt(o, ciphertext) == OFBEncrypt(o, ciphertext)

RECURSIVE ctrCounter(_, _)
\* the counter of CTR.Encrypt after k rounds of its loop
ctrCounter(counter, k) ==
    IF k = 0 THEN counter ELSE ctrCounter(Increment(counter), k - 1)

\* the rounds of the loop of CTR.Encrypt on n bytes
ctrRounds(blockSize, n) == (n + blockSize - 1) \div blockSize

(***************************************************************************)
(* The mode state machine: the caller builds one adapter from a cipher and *)
(* an IV slice, may set the CFB segment size, encrypts an input (once or   *)
(* twice) and decrypts the result, or decrypts an input; the caller may    *)
(* write to its IV slice at any time after the construction.               *)
(*                                                                         *)
(* heap holds the byte arrays behind the slices: caller (the slice passed  *)
(* to the constructor), own (the array the constructor made for the        *)
(* adapter) and local (the array a running call made; gone at its return). *)
(* The adapter's iv/counter field is a reference to one of them.           *)
(***************************************************************************)
\* the longest input of a call
MaxModeLen == 9

ModeKinds == {"ECB", "CBC", "CFB", "OFB", "CTR"}

\* ciphers with blocks of 2, 3 and 4 bytes
ModeCiphers ==
    { XorCipher(Pattern(163, 2)), RotAddCipher(Pattern(7, 3)),
      RotAddCipher(Pattern(29, 4)) }

\* IVs and counters of 2, 3 and 4 bytes; the counters 0xff.. wrap
ModeIVs == { Pattern(1, n) : n \in 2..4 } \cup { Repeat(255, n) : n \in 2..4 }

ModeInputs == { Pattern(65, n) : n \in 0..MaxModeLen }

\* the segment sizes asked of WithSegmentSize: 1..4 and one beyond either end
ModeSegmentSizes == 0..5

\* the array behind the iv field of a new adapter: the caller's own
CallerArray(kind) == "caller"

\* the array behind the iv/counter field of a new adapter: ivCopy, which
\* the constructor made
StoredArray(kind) == "own"

\* the register of a call in the array of the adapter's iv field
RegisterInStored(stored) == stored

\* the array that prev/register/counter of Encrypt and Decrypt is in: one
\* the call made
RegisterArray(stored) == "local"

\* the constructor of a kind
ModeNewRes(kind, cipher, iv) ==
    CASE kind = "ECB" -> Ok(NewECB(cipher))
      [] kind = "CBC" -> NewCBC(cipher, iv)
      [] kind = "CFB" -> NewCFB(cipher, iv)
      [] kind = "OFB" -> NewOFB(cipher, iv)
      [] kind = "CTR" -> NewCTR(cipher, iv)

\* the bytes of the iv/counter field of an adapter object
IvOf(kind, obj) ==
    CASE kind = "ECB" -> <<>>
      [] kind = "CTR" -> obj.counter
      [] OTHER        -> obj.iv

\* the adapter object with the bytes its iv/counter field refers to now
Stored(a, h) ==
    CASE a.kind = "ECB" -> a.res.val
      [] a.kind = "CTR" -> [a.res.val EXCEPT !.counter = h[a.ref]]
      [] OTHER          -> [a.res.val EXCEPT !.iv = h[a.ref]]

\* CTR.Encrypt with its number of rounds and the counter it ended with
ctrEncrypt(c, plaintext) ==
    Done(CTREncrypt(c, plaintext).val,
         ctrCounter(DuplicateSlice(c.counter),
                    ctrRounds(CipherBlockSize(c.cipher), Len(plaintext))),
         ctrRounds(CipherBlockSize(c.cipher), Len(plaintext)))

ctrDecrypt(c, ciphertext) ==
    Done(CTRDecrypt(c, ciphertext).val,
         ctrCounter(DuplicateSlice(c.counter),
                    ctrRounds(CipherBlockSize(c.cipher), Len(ciphertext))),
         ctrRounds(CipherBlockSize(c.cipher), Len(ciphertext)))

ModeEncryptRes(kind, obj, x) ==
    CASE kind = "ECB" -> ECBEncrypt(obj, x)
      [] kind = "CBC" -> CBCEncrypt(obj, x)
      [] kind = "CFB" -> CFBEncrypt(obj, x)
      [] kind = "OFB" -> OFBEncrypt(obj, x)
      [] kind = "CTR" -> ctrEncrypt(obj, x)

ModeDecryptRes(kind, obj, x) ==
    CASE kind = "ECB" -> ECBDecrypt(obj, x)
      [] kind = "CBC" -> CBCDecrypt(obj, x)
      [] kind = "CFB" -> CFBDecrypt(obj, x)
      [] kind = "OFB" -> OFBDecrypt(obj, x)
      [] kind = "CTR" -> ctrDecrypt(obj, x)

\* the heap after a call that left its register as res.register: the
\* call's own array is gone
AfterCall(h, stored, res) ==
    [[h EXCEPT ![RegisterArray(stored)] =
                   IF res.err = NoError /\ stored # "none" THEN res.register
                   ELSE h[RegisterArray(stored)]]
        EXCEPT !.local = <<>>]

ModeIdle ==
    /\ adapter = [made |-> FALSE]
    /\ heap = [caller |-> <<>>, own |-> <<>>, local |-> <<>>, none |-> <<>>,
               wrote |-> -1]
    /\ call = [op |-> "none", n |-> 0]

\* an adapter that was built without error
Built == adapter.made /\ adapter.res.err = NoError

ModeBuilt(kind, iv, res) ==
    /\ adapter' = [made |-> TRUE, kind |-> kind, res |-> res, given |-> iv,
                   ref |-> IF kind = "ECB" THEN "none" ELSE StoredArray(kind),
                   segmented |-> FALSE, seg |-> Ok(<<>>)]
    /\ heap' = [[heap EXCEPT !.caller = iv] EXCEPT
                   !.own = IF res.err = NoError THEN IvOf(kind, res.val) ELSE <<>>]

\* NewECB, NewCBC, NewCFB, NewOFB, NewCTR
ModeNew(kind, cipher, iv) ==
    /\ ~adapter.made
    /\ kind = "ECB" => iv = <<>>
    /\ kind # "ECB" => iv # <<>>
    /\ ModeBuilt(kind, iv, ModeNewRes(kind, cipher, iv))
    /\ UNCHANGED call
    /\ UNCHANGED <<GcmVars, Sm3Vars, Sm2Vars, PadVars, CipherVars>>

ModeSegmented(res) ==
    adapter' = [adapter EXCEPT !.segmented = TRUE,
                               !.seg = res,
                               !.res = IF res.err = NoError THEN res ELSE @]

\* CFB.WithSegmentSize on the new adapter
ModeWithSegmentSize(segmentSize) ==
    /\ Built /\ adapter.kind = "CFB"
    /\ ~adapter.segmented
    /\ call.op = "none"
    /\ ModeSegmented(WithSegmentSize(adapter.res.val, segmentSize))
    /\ UNCHANGED <<heap, call>>
    /\ UNCHANGED <<GcmVars, Sm3Vars, Sm2Vars, PadVars, CipherVars>>

\* the caller overwrites the slice it gave to the constructor
ModeCallerWrites ==
    /\ Built /\ adapter.kind # "ECB"
    /\ heap.wrote < 0
    /\ heap' = [heap EXCEPT !.caller = Bytes([i \in 1..Len(@) |-> 255 - @[i]]),
                            !.wrote = call.n]
    /\ UNCHANGED <<adapter, call>>
    /\ UNCHANGED <<GcmVars, Sm3Vars, Sm2Vars, PadVars, CipherVars>>

\* a call returned res; paired: its input was the output of the call before
ModeCalled(op, x, res, paired) ==
    /\ call' = [op |-> op, x |-> x, res |-> res, n |-> call.n + 1,
                first |-> IF call.n = 0 THEN res ELSE call.first,
                of |-> IF paired THEN call.x ELSE <<>>,
                paired |-> paired]
    /\ heap' = AfterCall(heap, adapter.ref, res)

\* Encrypt of x, a first time or once again
ModeEncrypt(x) ==
    /\ Built
    /\ \/ call.op = "none"
       \/ call.op = "Encrypt" /\ call.n = 1 /\ call.x = x
    /\ ModeCalled("Encrypt", x,
                  ModeEncryptRes(adapter.kind, Stored(adapter, heap), x), FALSE)
    /\ UNCHANGED adapter
    /\ UNCHANGED <<GcmVars, Sm3Vars, Sm2Vars, PadVars, CipherVars>>

\* Decrypt of what the last Encrypt returned
ModeDecrypt ==
    /\ Built
    /\ call.op = "Encrypt" /\ call.res.err = NoError
    /\ ModeCalled("Decrypt", call.res.val,
                  ModeDecryptRes(adapter.kind, Stored(adapter, heap), call.res.val),
                  TRUE)
    /\ UNCHANGED adapter
    /\ UNCHANGED <<GcmVars, Sm3Vars, Sm2Vars, PadVars, CipherVars>>

\* Decrypt of an input of the caller's, as the first call or after Encrypt
\* of the same input
ModeDecryptInput(x) ==
    /\ Built
    /\ \/ call.op = "none"
       \/ call.op = "Encrypt" /\ call.n = 1 /\ call.x = x
    /\ ModeCalled("Decrypt", x,
                  ModeDecryptRes(adapter.kind, Stored(adapter, heap), x), FALSE)
    /\ UNCHANGED adapter
    /\ UNCHANGED <<GcmVars, Sm3Vars, Sm2Vars, PadVars, CipherVars>>

ModeNext ==
    \/ \E k \in ModeKinds, c \in ModeCiphers, iv \in ModeIVs \cup {<<>>} :
           ModeNew(k, c, iv)
    \/ \E s \in ModeSegmentSizes : ModeWithSegmentSize(s)
    \/ ModeCallerWrites
    \/ \E x \in ModeInputs : ModeEncrypt(x)
    \/ ModeDecrypt
    \/ \E x \in ModeInputs : ModeDecryptInput(x)

(***************************************************************************)
(* The RC4 state machine: an instance is made by New or keyed again by     *)
(* Reset, data is encrypted, and what Encrypt returned is decrypted by the *)
(* instance in use then.                                                   *)
(***************************************************************************)
\* the longest data of one call, and the most bytes one keying is used for
MaxRc4Len  == 3
MaxRc4Used == 4

\* keys: none, one byte, five bytes, the longest, and one byte too many
Rc4Keys == { <<>>, <<1>>, Pattern(3, 5), Pattern(7, MaxKeySize),
             Pattern(7, MaxKeySize + 1) }

Rc4Data == { Pattern(65, n) : n \in 0..MaxRc4Len }

Rc4Idle ==
    /\ rc4 = [made |-> FALSE]
    /\ rc4call = [op |-> "none"]

\* the instance r keyed with key by the call named by, and used for no byte
Keyed(r, key, by) == [made |-> TRUE, r |-> r, key |-> key, by |-> by, used |-> 0]

\* rc4.New(key): a new instance takes the place of the one in use
Rc4Made(key, res) ==
    rc4' = IF res.err = NoError THEN Keyed(res.val, key, "New")
           ELSE [made |-> FALSE, err |-> res.err]

Rc4New(key) ==
    /\ rc4call.op \in {"none", "Encrypt"}
    /\ Rc4Made(key, rc4New(key))
    /\ UNCHANGED rc4call
    /\ UNCHANGED <<GcmVars, Sm3Vars, Sm2Vars, PadVars, ModeVars, Rc5Vars, TwofishVars, OtherVars>>

Rc4Keyed(key, res) ==
    rc4' = IF res.err = NoError THEN Keyed(res.r, key, "Reset") ELSE rc4

Rc4Reset(key) ==
    /\ rc4.made
    /\ Rc4Keyed(key, rc4Reset(rc4.r, key))
    /\ UNCHANGED rc4call
    /\ UNCHANGED <<GcmVars, Sm3Vars, Sm2Vars, PadVars, ModeVars, Rc5Vars, TwofishVars, OtherVars>>

Rc4Called(op, data, res, more) ==
    /\ rc4' = [rc4 EXCEPT !.r = res.r, !.used = @ + Len(data)]
    /\ rc4call' = [op |-> op, data |-> data, out |-> res.output, before |-> rc4,
                   after |-> res.r, of |-> more]

Rc4Encrypt(data) ==
    /\ rc4.made
    /\ rc4.used + Len(data) <= MaxRc4Used
    /\ Rc4Called("Encrypt", data, rc4Encrypt(rc4.r, data), [op |-> "none"])
    /\ UNCHANGED <<GcmVars, Sm3Vars, Sm2Vars, PadVars, ModeVars, Rc5Vars, TwofishVars, OtherVars>>

\* Decrypt of what the last Encrypt returned, by the instance in use now
Rc4Decrypt ==
    /\ rc4.made
    /\ rc4call.op = "Encrypt"
    /\ Rc4Called("Decrypt", rc4call.out, rc4Decrypt(rc4.r, rc4call.out), rc4call)
    /\ UNCHANGED <<GcmVars, Sm3Vars, Sm2Vars, PadVars, ModeVars, Rc5Vars, TwofishVars, OtherVars>>

Rc4Next ==
    \/ \E key \in Rc4Keys : Rc4New(key)
    \/ \E key \in Rc4Keys : Rc4Reset(key)
    \/ \E data \in Rc4Data : Rc4Encrypt(data)
    \/ Rc4Decrypt

(***************************************************************************)
(* The RC5 state machine: an instance is made with NewWithParams, blocks   *)
(* are encrypted and decrypted by it, and what one call returned is given  *)
(* to the opposite call.                                                   *)
(***************************************************************************)
\* sweep blocks are given to instances of at most this many rounds
MaxSweepRounds == 2

\* keys: none, one byte, the default size, the longest, and one byte too many
Rc5Keys == { <<>>, <<1>>, Pattern(48, 16), Pattern(7, Rc5MaxKeySize),
             Pattern(7, Rc5MaxKeySize + 1) }

Rc5Rounds == {0, 1, 2, DefaultRounds, 255, 256}

Rc5WordSizes == {DefaultWordSize, 64}

\* blocks: zeros, ones, two patterns, and two of a wrong size
Rc5Blocks == { Zeros(Rc5BlockSize), Repeat(255, Rc5BlockSize),
               Pattern(97, Rc5BlockSize), Pattern(250, Rc5BlockSize),
               Pattern(115, 5), Pattern(115, 10) }

\* blocks whose second word runs through every value of its low five bits
Rc5Sweep == { <<1, 2, 3, 4, v, 6, 7, 8>> : v \in 0..31 }

Rc5Idle ==
    /\ rc5 = [made |-> FALSE, asked |-> FALSE]
    /\ rc5call = [op |-> "none"]

\* rc5.NewWithParams(key, rnds, wordSize) when there is no instance
Rc5Made(key, rnds, wordSize, res) ==
    rc5' = IF res.err = NoError
           THEN [made |-> TRUE, r |-> res.val]
           ELSE [made |-> FALSE, asked |-> TRUE, err |-> res.err,
                 keySize |-> Len(key), rounds |-> rnds, wordSize |-> wordSize]

Rc5NewWithParams(key, rnds, wordSize) ==
    /\ ~rc5.made
    /\ Rc5Made(key, rnds, wordSize, NewWithParams(key, rnds, wordSize))
    /\ UNCHANGED rc5call
    /\ UNCHANGED <<GcmVars, Sm3Vars, Sm2Vars, PadVars, ModeVars, Rc4Vars, TwofishVars, OtherVars>>

\* rc5.New(key) when there is no instance
Rc5New(key) ==
    /\ ~rc5.made
    /\ Rc5Made(key, DefaultRounds, DefaultWordSize, rc5New(key))
    /\ UNCHANGED rc5call
    /\ UNCHANGED <<GcmVars, Sm3Vars, Sm2Vars, PadVars, ModeVars, Rc4Vars, TwofishVars, OtherVars>>

\* the blocks given to the instance in use
Rc5Given ==
    Rc5Blocks \cup (IF rc5.r.rounds <= MaxSweepRounds THEN Rc5Sweep ELSE {})

Rc5Called(op, blk, res, more) ==
    /\ rc5call' = [op |-> op, data |-> blk, out |-> res, of |-> more,
                   before |-> rc5.r]
    /\ UNCHANGED rc5

Rc5Encrypt(blk) ==
    /\ rc5.made
    /\ blk \in Rc5Given
    /\ Rc5Called("Encrypt", blk, rc5Encrypt(rc5.r, blk), [op |-> "none"])
    /\ UNCHANGED <<GcmVars, Sm3Vars, Sm2Vars, PadVars, ModeVars, Rc4Vars, TwofishVars, OtherVars>>

Rc5Decrypt(blk) ==
    /\ rc5.made
    /\ blk \in Rc5Given
    /\ Rc5Called("Decrypt", blk, rc5Decrypt(rc5.r, blk), [op |-> "none"])
    /\ UNCHANGED <<GcmVars, Sm3Vars, Sm2Vars, PadVars, ModeVars, Rc4Vars, TwofishVars, OtherVars>>

\* Decrypt of the blk the last Encrypt returned
Rc5DecryptReturned ==
    /\ rc5.made
    /\ rc5call.op = "Encrypt"
    /\ rc5call.out.err = NoError
    /\ rc5call.of.op = "none"
    /\ Rc5Called("Decrypt", rc5call.out.val, rc5Decrypt(rc5.r, rc5call.out.val),
                 [op |-> rc5call.op, data |-> rc5call.data])
    /\ UNCHANGED <<GcmVars, Sm3Vars, Sm2Vars, PadVars, ModeVars, Rc4Vars, TwofishVars, OtherVars>>

\* Encrypt of the blk the last Decrypt returned
Rc5EncryptReturned ==
    /\ rc5.made
    /\ rc5call.op = "Decrypt"
    /\ rc5call.out.err = NoError
    /\ rc5call.of.op = "none"
    /\ Rc5Called("Encrypt", rc5call.out.val, rc5Encrypt(rc5.r, rc5call.out.val),
                 [op |-> rc5call.op, data |-> rc5call.data])
    /\ UNCHANGED <<GcmVars, Sm3Vars, Sm2Vars, PadVars, ModeVars, Rc4Vars, TwofishVars, OtherVars>>

Rc5Next ==
    \/ \E key \in Rc5Keys, rnds \in Rc5Rounds, wordSize \in Rc5WordSizes :
          Rc5NewWithParams(key, rnds, wordSize)
    \/ \E key \in Rc5Keys : Rc5New(key)
    \/ \E blk \in Rc5Blocks \cup Rc5Sweep : Rc5Encrypt(blk)
    \/ \E blk \in Rc5Blocks \cup Rc5Sweep : Rc5Decrypt(blk)
    \/ Rc5DecryptReturned
    \/ Rc5EncryptReturned

(***************************************************************************)
(* The Twofish state machine: an instance is made with New, blocks are     *)
(* encrypted and decrypted by it, and what Encrypt returned is given to    *)
(* Decrypt.                                                                *)
(***************************************************************************)
\* keys: none, one byte short, the three sizes, one byte too many
TwofishKeys == { <<>>, Pattern(1, KeySize128 - 1), Pattern(1, KeySize128),
                 Zeros(KeySize128), Pattern(200, KeySize192),
                 Pattern(77, KeySize256), Repeat(255, KeySize256),
                 Pattern(77, KeySize256 + 1) }

\* blocks: zeros, ones, patterns, a single high bit, a single low bit, and
\* two of a wrong size
TwofishBlocks ==
    { Zeros(TwofishBlockSize), Repeat(255, TwofishBlockSize),
      Pattern(97, TwofishBlockSize), Pattern(250, TwofishBlockSize),
      Pattern(3, TwofishBlockSize), Repeat(85, TwofishBlockSize),
      <<128>> \o Zeros(TwofishBlockSize - 1),
      Zeros(TwofishBlockSize - 1) \o <<1>>,
      Pattern(115, TwofishBlockSize - 1), Pattern(115, TwofishBlockSize + 1) }

TwofishIdle ==
    /\ twofish = [made |-> FALSE, asked |-> FALSE]
    /\ tfcall = [op |-> "none"]

TwofishNew(key) ==
    /\ ~twofish.made
    /\ twofish' = IF twofishNew(key).err = NoError
                  THEN [made |-> TRUE, t |-> twofishNew(key).val]
                  ELSE [made |-> FALSE, asked |-> TRUE, keySize |-> Len(key),
                        err |-> twofishNew(key).err]
    /\ UNCHANGED tfcall
    /\ UNCHANGED <<GcmVars, Sm3Vars, Sm2Vars, PadVars, ModeVars, Rc4Vars, Rc5Vars, OtherVars>>

TwofishCalled(op, blk, res, more) ==
    /\ tfcall' = [op |-> op, data |-> blk, out |-> res, of |-> more]
    /\ UNCHANGED twofish

TwofishEncrypt(blk) ==
    /\ twofish.made
    /\ TwofishCalled("Encrypt", blk, twofishEncrypt(twofish.t, blk), [op |-> "none"])
    /\ UNCHANGED <<GcmVars, Sm3Vars, Sm2Vars, PadVars, ModeVars, Rc4Vars, Rc5Vars, OtherVars>>

TwofishDecrypt(blk) ==
    /\ twofish.made
    /\ TwofishCalled("Decrypt", blk, twofishDecrypt(twofish.t, blk), [op |-> "none"])
    /\ UNCHANGED <<GcmVars, Sm3Vars, Sm2Vars, PadVars, ModeVars, Rc4Vars, Rc5Vars, OtherVars>>

\* Decrypt of the block the last Encrypt returned
TwofishDecryptReturned ==
    /\ twofish.made
    /\ tfcall.op = "Encrypt"
    /\ tfcall.out.err = NoError
    /\ TwofishCalled("Decrypt", tfcall.out.val,
                     twofishDecrypt(twofish.t, tfcall.out.val),
                     [op |-> tfcall.op, data |-> tfcall.data])
    /\ UNCHANGED <<GcmVars, Sm3Vars, Sm2Vars, PadVars, ModeVars, Rc4Vars, Rc5Vars, OtherVars>>

TwofishNext ==
    \/ \E key \in TwofishKeys : TwofishNew(key)
    \/ \E blk \in TwofishBlocks : TwofishEncrypt(blk)
    \/ \E blk \in TwofishBlocks : TwofishDecrypt(blk)
    \/ TwofishDecryptReturned

(***************************************************************************)
(* Concurrent calls on one shared instance: a cipher is constructed and    *)
(* handed, with one input block, to two goroutines; each makes one Encrypt *)
(* or Decrypt call, and the scheduler interleaves their steps.  shared.made*)
(* remembers the instance and the block as they were handed over.          *)
(***************************************************************************)
Goroutines == {1, 2}

SharedCiphers ==
    { [kind |-> "aes",      key |-> Pattern(0, 16)],
      [kind |-> "blowfish", key |-> Pattern(65, 8)],
      [kind |-> "des",      key |-> Pattern(19, 8)],
      [kind |-> "sm4",      key |-> Pattern(1, 16)],
      [kind |-> "twofish",  key |-> Pattern(0, 16)],
      [kind |-> "rc5",      key |-> Pattern(48, 16)] }

\* a block of 8 bytes, one of 16 and one that no cipher accepts
SharedInputs == { Pattern(17, 8), Pattern(200, 16), Pattern(17, 5) }

SharedIdle ==
    /\ shared = [kind |-> "none", inst |-> <<>>, input |-> <<>>]
    /\ made = [inst |-> <<>>, input |-> <<>>]
    /\ goro = [g \in Goroutines |-> callIdle]

\* New(key) of a package, and the block the calls are given
SharedNew(c, input) ==
    /\ shared.kind = "none"
    /\ blockNew(c.kind, c.key).err = NoError
    /\ shared' = [kind |-> c.kind, inst |-> blockNew(c.kind, c.key).val,
                  input |-> input]
    /\ made' = [inst |-> blockNew(c.kind, c.key).val, input |-> input]
    /\ UNCHANGED goro
    /\ UNCHANGED <<GcmVars, Sm3Vars, Sm2Vars, PadVars, ModeVars, Rc4Vars, Rc5Vars,
                   TwofishVars, DriverVars>>

\* the memory and the locals of g after a step; met records that the step
\* was taken while another call was between its start and its return
SharedAfter(g, after) ==
    /\ shared' = after.mem
    /\ goro' = [goro EXCEPT ![g] =
                   [after.loc EXCEPT !.met =
                       goro[g].met \/ \E h \in Goroutines \ {g} :
                                         goro[h].pc \in {"run", "return"}]]
    /\ UNCHANGED made
    /\ UNCHANGED <<GcmVars, Sm3Vars, Sm2Vars, PadVars, ModeVars, Rc4Vars, Rc5Vars,
                   TwofishVars, DriverVars>>

\* goroutine g enters Encrypt or Decrypt
SharedCall(g, op) ==
    /\ shared.kind # "none"
    /\ goro[g].pc = "idle"
    /\ SharedAfter(g, callBegin(shared, op))

\* goroutine g runs one step of its call
SharedStep(g) ==
    /\ goro[g].pc = "run"
    /\ goro[g].x < callSteps(shared.kind, shared.inst)
    /\ SharedAfter(g, callNext(shared, goro[g]))

\* goroutine g writes its result
SharedWrite(g) ==
    /\ goro[g].pc = "run"
    /\ goro[g].x = callSteps(shared.kind, shared.inst)
    /\ SharedAfter(g, callWrite(shared, goro[g]))

\* goroutine g returns
SharedReturn(g) ==
    /\ goro[g].pc = "return"
    /\ SharedAfter(g, [mem |-> shared, loc |-> callReturn(shared, goro[g])])

SharedNext ==
    \/ \E c \in SharedCiphers, input \in SharedInputs : SharedNew(c, input)
    \/ \E g \in Goroutines, op \in {"Encrypt", "Decrypt"} : SharedCall(g, op)
    \/ \E g \in Goroutines : SharedStep(g)
    \/ \E g \in Goroutines : SharedWrite(g)
    \/ \E g \in Goroutines : SharedReturn(g)

(***************************************************************************)
(* The example drivers of Blowfish and Twofish (package examples).  The    *)
(* two pairs of functions differ in the package they call only, so kind    *)
(* ("blowfish" or "twofish") names the package.  An Options value opt is   *)
(* [Key, Iv, Mode, Padding, BlockSize]; the drivers are handed a pointer   *)
(* to it and opt.Iv is a slice, so each driver returns, with its result    *)
(* out, the Options value as the call leaves it.                           *)
(***************************************************************************)
DriverErrCBC     == "driver_cbc_needs_iv"
DriverErrCTR     == "driver_ctr_needs_counter"
DriverErrMode    == "driver_unsupported_mode"
DriverErrPadding == "driver_unsupported_padding"

\* examples.Padding; random stands for the bytes ISO10126Padding draws
Padding(plaintext, opt, random) ==
    CASE opt.Padding = "PKCS#7"   -> PKCS7Padding(plaintext, opt.BlockSize)
      [] opt.Padding = "M1"       -> M1Padding(plaintext, opt.BlockSize)
      [] opt.Padding = "M1(+0)"   -> M1PlusZeroPadding(plaintext, opt.BlockSize)
      [] opt.Padding = "M2"       -> M2Padding(plaintext, opt.BlockSize)
      [] opt.Padding = "ISO7816"  -> ISO7816Padding(plaintext, opt.BlockSize)
      [] opt.Padding = "ANSIX923" -> ANSIX923Padding(plaintext, opt.BlockSize)
      [] opt.Padding = "Zero"     -> ZeroPadding(plaintext, opt.BlockSize)
      [] opt.Padding = "PKCS#5"   -> PKCS5Padding(plaintext)
      [] opt.Padding = "ISO10126" -> ISO10126Padding(plaintext, opt.BlockSize, random)
      [] opt.Padding = "TBC"      -> TBCPadding(plaintext, opt.BlockSize)
      [] OTHER                    -> Ok(plaintext)

\* blowfish.BlockSize, twofish.BlockSize
driverBlockSize(kind) ==
    IF kind = "blowfish" THEN BlowfishBlockSize ELSE TwofishBlockSize

\* dst[j] = a[j] ^ b[j] for j < n
xorBlock(a, b, n) == Bytes([j \in 1..n |-> Xor(a[j], b[j])])

RECURSIVE driverECB(_, _, _, _, _, _)
\* the ECB loop of a driver from offset i on: every block goes through
\* Encrypt (op = "Encrypt") or Decrypt of the cipher
driverECB(kind, op, inst, data, out, i) ==
    IF Len(out) < 0 THEN out
    ELSE IF i >= Len(data) THEN out
    ELSE driverECB(kind, op, inst, data,
                   out \o blockCall(kind, op, inst,
                                    Slice(data, i, i + driverBlockSize(kind))).val,
                   i + driverBlockSize(kind))

\* the block of the CBC loop of Encrypt at offset i
cbcEncrypted(kind, inst, data, previousBlock, i) ==
    blockCall(kind, "Encrypt", inst,
              xorBlock(Slice(data, i, i + driverBlockSize(kind)), previousBlock,
                       driverBlockSize(kind))).val

RECURSIVE driverCBCEncrypt(_, _, _, _, _, _)
\* the CBC loop of Blowfish_Encrypt and Twofish_Encrypt from offset i on
driverCBCEncrypt(kind, inst, data, out, previousBlock, i) ==
    IF Len(previousBlock) < 0 THEN out
    ELSE IF i >= Len(data) THEN out
    ELSE driverCBCEncrypt(kind, inst, data,
                          out \o cbcEncrypted(kind, inst, data, previousBlock, i),
                          cbcEncrypted(kind, inst, data, previousBlock, i),
                          i + driverBlockSize(kind))

RECURSIVE driverCBCDecrypt(_, _, _, _, _, _)
\* the CBC loop of Blowfish_Decrypt and Twofish_Decrypt from offset i on
driverCBCDecrypt(kind, inst, data, out, previousBlock, i) ==
    IF Len(out) < 0 THEN out
    ELSE IF i >= Len(data) THEN out
    ELSE driverCBCDecrypt(kind, inst, data,
             out \o xorBlock(blockCall(kind, "Decrypt", inst,
                                       Slice(data, i, i + driverBlockSize(kind))).val,
                             previousBlock, driverBlockSize(kind)),
             Slice(data, i, i + driverBlockSize(kind)),
             i + driverBlockSize(kind))

\* "for j := blockSize - 1; j >= 0; j-- { counter[j]++; if counter[j] != 0
\* { break } }"
driverIncrement(counter, blockSize) == IncrementFrom(counter, blockSize)

\* one pass of the CTR loop at offset i on st = [out, counter]: the counter
\* is copied and encrypted, the data XORed with it, and the counter array
\* itself is incremented
driverCTRPass(kind, inst, data, st, i) ==
    [out     |-> st.out \o
                 xorBlock(Slice(data, i, Len(data)),
                          blockCall(kind, "Encrypt", inst, st.counter).val,
                          Min(driverBlockSize(kind), Len(data) - i)),
     counter |-> driverIncrement(st.counter, driverBlockSize(kind))]

RECURSIVE driverCTR(_, _, _, _, _)
\* the CTR loop of the four drivers from offset i on
driverCTR(kind, inst, data, st, i) ==
    IF Len(st.out) < 0 THEN st
    ELSE IF i >= Len(data) THEN st
    ELSE driverCTR(kind, inst, data, driverCTRPass(kind, inst, data, st, i),
                   i + driverBlockSize(kind))

\* the result of a CTR loop: "counter := opt.Iv" is the array of opt.Iv
driverCTRDone(st, opt) == [out |-> Ok(st.out), opt |-> [opt EXCEPT !.Iv = st.counter]]

\* the switch on opt.Mode of Blowfish_Encrypt and Twofish_Encrypt
driverEncryptMode(kind, inst, data, opt) ==
    CASE opt.Mode = "ECB" ->
           [out |-> Ok(driverECB(kind, "Encrypt", inst, data, <<>>, 0)), opt |-> opt]
      [] opt.Mode = "CBC" ->
           IF Len(opt.Iv) # driverBlockSize(kind)
           THEN [out |-> Fail(DriverErrCBC), opt |-> opt]
           ELSE [out |-> Ok(driverCBCEncrypt(kind, inst, data, <<>>, opt.Iv, 0)),
                 opt |-> opt]
      [] opt.Mode = "CTR" ->
           IF Len(opt.Iv) # driverBlockSize(kind)
           THEN [out |-> Fail(DriverErrCTR), opt |-> opt]
           ELSE driverCTRDone(driverCTR(kind, inst, data,
                                        [out |-> <<>>, counter |-> opt.Iv], 0), opt)
      [] OTHER -> [out |-> Fail(DriverErrMode), opt |-> opt]

\* the driver once New has returned
driverEncryptWith(kind, created, data, opt) ==
    IF created.err # NoError THEN [out |-> Fail(created.err), opt |-> opt]
    ELSE driverEncryptMode(kind, created.val, data, opt)

\* the driver once Padding has returned
driverEncryptPadded(kind, padded, opt) ==
    IF padded.err # NoError THEN [out |-> Fail(padded.err), opt |-> opt]
    ELSE driverEncryptWith(kind, blockNew(kind, opt.Key), padded.val, opt)

\* Blowfish_Encrypt and Twofish_Encrypt, opt.BlockSize set
driverEncryptSized(kind, plaintext, opt, random) ==
    driverEncryptPadded(kind, Padding(plaintext, opt, random), opt)

\* Blowfish_Encrypt and Twofish_Encrypt
driverEncrypt(kind, plaintext, opt, random) ==
    driverEncryptSized(kind, plaintext,
                       [opt EXCEPT !.BlockSize = driverBlockSize(kind)], random)

Blowfish_Encrypt(plaintext, opt, random) ==
    driverEncrypt("blowfish", plaintext, opt, random)

Twofish_Encrypt(plaintext, opt, random) ==
    driverEncrypt("twofish", plaintext, opt, random)

\* the switch on opt.Padding at the end of the decrypt drivers
driverUnpad(res) ==
    IF res.out.err # NoError THEN res
    ELSE CASE res.opt.Padding = "PKCS#7" ->
                [out |-> PKCS7UnPadding(res.out.val), opt |-> res.opt]
           [] res.opt.Padding = "PKCS#5" ->
                [out |-> PKCS5UnPadding(res.out.val), opt |-> res.opt]
           [] res.opt.Padding = "None" -> res
           [] OTHER -> [out |-> Fail(DriverErrPadding), opt |-> res.opt]

\* the switch on opt.Mode of Blowfish_Decrypt and Twofish_Decrypt
driverDecryptMode(kind, inst, data, opt) ==
    CASE opt.Mode = "ECB" ->
           [out |-> Ok(driverECB(kind, "Decrypt", inst, data, <<>>, 0)), opt |-> opt]
      [] opt.Mode = "CBC" ->
           IF Len(opt.Iv) # driverBlockSize(kind)
           THEN [out |-> Fail(DriverErrCBC), opt |-> opt]
           ELSE [out |-> Ok(driverCBCDecrypt(kind, inst, data, <<>>, opt.Iv, 0)),
                 opt |-> opt]
      [] opt.Mode = "CTR" ->
           IF Len(opt.Iv) # driverBlockSize(kind)
           THEN [out |-> Fail(DriverErrCTR), opt |-> opt]
           ELSE driverCTRDone(driverCTR(kind, inst, data,
                                        [out |-> <<>>, counter |-> opt.Iv], 0), opt)
      [] OTHER -> [out |-> Fail(DriverErrMode), opt |-> opt]

\* the driver once New has returned
driverDecryptWith(kind, created, data, opt) ==
    IF created.err # NoError THEN [out |-> Fail(created.err), opt |-> opt]
    ELSE driverUnpad(driverDecryptMode(kind, created.val, data, opt))

\* Blowfish_Decrypt and Twofish_Decrypt
driverDecrypt(kind, ciphertext, opt) ==
    driverDecryptWith(kind, blockNew(kind, opt.Key), ciphertext, opt)

Blowfish_Decrypt(ciphertext, opt) == driverDecrypt("blowfish", ciphertext, opt)

Twofish_Decrypt(ciphertext, opt) == driverDecrypt("twofish", ciphertext, opt)

(***************************************************************************)
(* The example drivers as Blowfish_test and Twofish_test use them: one     *)
(* Options value is set up, a plaintext is encrypted with it, and what the *)
(* encrypt driver returned is decrypted with the same Options value.       *)
(***************************************************************************)
\* the longest plaintext a driver is given
MaxDriverLen == 17

DriverKinds == {"blowfish", "twofish"}

\* a key the package accepts and one it refuses
DriverKeys(kind) ==
    { IF kind = "blowfish" THEN Pattern(98, 17) ELSE Pattern(116, 16), Pattern(1, 3) }

\* the three modes of the drivers and one they do not know
DriverModes == {"ECB", "CBC", "CTR", "OFB"}

\* two paddings the decrypt drivers remove and one they do not
DriverPaddings == {"PKCS#7", "None", "Zero"}

\* an IV of the block size, one whose increment carries through every byte,
\* and no IV
DriverIvs(kind) ==
    { Pattern(49, driverBlockSize(kind)), Repeat(255, driverBlockSize(kind)), <<>> }

DriverPlaintexts == { Pattern(65, n) : n \in {0, 5, 16, MaxDriverLen} }

DriverRandoms == {0}

DriverIdle ==
    /\ options = [Key |-> <<>>, Iv |-> <<>>, Mode |-> "", Padding |-> "",
                  BlockSize |-> 0]
    /\ driver = [stage |-> "none"]

\* "opt := &Options{Key: key, Mode: ..., Padding: ..., Iv: iv}"
DriverOptions(kind, key, mode, padding, iv) ==
    /\ driver.stage = "none"
    /\ options' = [Key |-> key, Iv |-> iv, Mode |-> mode, Padding |-> padding,
                   BlockSize |-> 0]
    /\ driver' = [stage |-> "set", kind |-> kind, given |-> iv]
    /\ UNCHANGED <<GcmVars, Sm3Vars, Sm2Vars, PadVars, ModeVars, Rc4Vars, Rc5Vars,
                   TwofishVars, SharedVars>>

\* the drivers slice whole blocks off the padded plaintext in ECB and CBC
\* mode: the plaintext is one the padding brings to whole blocks
DriverWholeBlocks(kind, plaintext) ==
    \/ options.Mode \notin {"ECB", "CBC"}
    \/ options.Padding # "None"
    \/ Len(plaintext) % driverBlockSize(kind) = 0

\* the Options value and the record of the calls after an encrypt driver
DriverEncrypted(plaintext, res) ==
    /\ options' = res.opt
    /\ driver' = [stage |-> "encrypted", kind |-> driver.kind, given |-> driver.given,
                  plaintext |-> plaintext, ivBefore |-> options.Iv,
                  enc |-> res.out, ivAfter |-> res.opt.Iv]
    /\ UNCHANGED <<GcmVars, Sm3Vars, Sm2Vars, PadVars, ModeVars, Rc4Vars, Rc5Vars,
                   TwofishVars, SharedVars>>

\* "ciphertext, err := Blowfish_Encrypt(plaintext, opt)", or Twofish_Encrypt
DriverEncrypt(plaintext, random) ==
    /\ driver.stage = "set"
    /\ DriverWholeBlocks(driver.kind, plaintext)
    /\ DriverEncrypted(plaintext,
                       IF driver.kind = "blowfish"
                       THEN Blowfish_Encrypt(plaintext, options, random)
                       ELSE Twofish_Encrypt(plaintext, options, random))

\* the Options value and the record of the calls after a decrypt driver
DriverDecrypted(res) ==
    /\ options' = res.opt
    /\ driver' = [stage |-> "decrypted", kind |-> driver.kind, given |-> driver.given,
                  plaintext |-> driver.plaintext, ivBefore |-> driver.ivBefore,
                  enc |-> driver.enc, ivAfter |-> driver.ivAfter, dec |-> res.out]
    /\ UNCHANGED <<GcmVars, Sm3Vars, Sm2Vars, PadVars, ModeVars, Rc4Vars, Rc5Vars,
                   TwofishVars, SharedVars>>

\* "decrypted, err := Blowfish_Decrypt(ciphertext, opt)", or Twofish_Decrypt,
\* with the ciphertext the encrypt driver returned and the same opt
DriverDecrypt ==
    /\ driver.stage = "encrypted"
    /\ driver.enc.err = NoError
    /\ DriverDecrypted(IF driver.kind = "blowfish"
                       THEN Blowfish_Decrypt(driver.enc.val, options)
                       ELSE Twofish_Decrypt(driver.enc.val, options))

DriverNext ==
    \/ \E kind \in DriverKinds :
          \E key \in DriverKeys(kind), mode \in DriverModes,
             padding \in DriverPaddings, iv \in DriverIvs(kind) :
                DriverOptions(kind, key, mode, padding, iv)
    \/ \E plaintext \in DriverPlaintexts, random \in DriverRandoms :
          DriverEncrypt(plaintext, random)
    \/ DriverDecrypt

(***************************************************************************)
(* The specifications.                                                     *)
(***************************************************************************)
Init == GcmIdle /\ Sm3Idle /\ Sm2Idle /\ PadIdle /\ ModeIdle /\ Rc4Idle /\ Rc5Idle /\ TwofishIdle
        /\ SharedIdle /\ DriverIdle

GcmNext ==
    \/ \E c \in GcmCiphers, t \in GcmTagSizes : GcmNew(c, t)
    \/ \E n \in GcmNonces, p \in GcmPlaintexts, a \in GcmAads : GcmSeal(n, p, a)
    \/ \E a \in GcmAads : GcmOpen(a)

SpecGCM == Init /\ [][GcmNext]_vars

\* The ciphers of the tamper runs: one whose H = E(0^128) is zero, one whose
\* H squared has four leading zero bytes in GF(2^128), and an ordinary one.
TamperCiphers ==
    { XorCipher(Zeros(16)),
      XorCipher(<<127, 109, 173, 182, 219, 109, 182, 219,
                  109, 182, 201, 36, 146, 73, 36, 146>>),
      RotAddCipher(Pattern(29, 16)) }

\* the shortest and the longest tag
TamperTagSizes == {4, 16}

TamperPlaintexts == { Pattern(65, n) : n \in {1, MaxPlainLen} }

TamperAads == { <<>>, <<1>> }

GcmTamperNext ==
    \/ \E c \in TamperCiphers, t \in TamperTagSizes : GcmNew(c, t)
    \/ \E p \in TamperPlaintexts, a \in TamperAads : GcmSeal(Pattern(1, 12), p, a)
    \/ \E b \in 0..(8 * (MaxPlainLen + 16) - 1) : GcmOpenFlipped(b)

SpecGCMTamper == Init /\ [][GcmTamperNext]_vars

SpecSM3 == Init /\ [][Sm3Next]_vars

SpecSM2 == Init /\ [][Sm2Next]_vars

SpecPad == Init /\ [][PadNext]_vars

SpecModes == Init /\ [][ModeNext]_vars

SpecRC4 == Init /\ [][Rc4Next]_vars

SpecRC5 == Init /\ [][Rc5Next]_vars

SpecTwofish == Init /\ [][TwofishNext]_vars

SpecShared == Init /\ [][SharedNext]_vars

SpecDriver == Init /\ [][DriverNext]_vars

\* the last Open was given the sealed bytes of the last Seal, unchanged
OpenedSealed == opened.called /\ opened.flip = -1

(***************************************************************************)
(* C1  GCM round trip: whatever the cipher, the tag size in 4..16, the     *)
(* 12-byte nonce, the plaintext and the AAD, Open of what Seal returned,   *)
(* under the same nonce and AAD, returns the plaintext and no error.       *)
(***************************************************************************)
GcmRoundTrip ==
    (OpenedSealed /\ opened.aad = sealed.aad)
        => (opened.res.err = NoError /\ opened.res.val = sealed.pt)

\* a round trip of a plaintext longer than a block under a 4-byte tag
GcmRoundTripWitness ==
    /\ OpenedSealed /\ opened.aad = sealed.aad
    /\ gcm.res.val.tagSize = 4
    /\ Len(sealed.pt) > 16
    /\ opened.res.err = NoError /\ opened.res.val = sealed.pt

(***************************************************************************)
(* C2  GCM AAD binding: Open of the sealed bytes under an AAD that differs *)
(* from the one given to Seal fails with tag_mismatch.                     *)
(***************************************************************************)
GcmAadBinding ==
    (OpenedSealed /\ opened.aad # sealed.aad)
        => opened.res.err = ErrTagMismatch

\* the last Open was given the sealed bytes with one bit flipped
OpenedFlipped == opened.called /\ opened.flip >= 0

\* the flipped bit lies in the tag, the last tagSize bytes of the sealed bytes
FlipInTag == opened.flip >= 8 * Len(sealed.pt)

(***************************************************************************)
(* C3  GCM tamper detection, as stated: Open of the sealed bytes with any  *)
(* single bit flipped fails.                                               *)
(***************************************************************************)
GcmTamperDetectedAlways ==
    OpenedFlipped => opened.res.err # NoError

(***************************************************************************)
(* C3, amended: a flipped tag bit makes Open fail with tag_mismatch and no *)
(* plaintext under every cipher and tag size; a flipped ciphertext bit     *)
(* does when the tag has its full 16 bytes and H = E(0^128) is not zero.   *)
(***************************************************************************)
GcmTamperDetected ==
    (/\ OpenedFlipped
     /\ \/ FlipInTag
        \/ (gcm.res.val.tagSize = 16 /\ gcm.res.val.h # Zeros(16)))
        => (opened.res.err = ErrTagMismatch /\ opened.res.val = <<>>)

\* a flipped bit in the second ciphertext block, detected under a 16-byte tag
GcmTamperWitness ==
    /\ OpenedFlipped /\ ~FlipInTag
    /\ opened.flip >= 128
    /\ gcm.res.val.tagSize = 16 /\ gcm.res.val.h # Zeros(16)
    /\ opened.res.err = ErrTagMismatch

(***************************************************************************)
(* SM3 claims                                                              *)
(***************************************************************************)
\* the zero bytes of a minimal padding of an L-byte message
MinimalZeros(L) == (BlockSize - ((L + 1 + 8) % BlockSize)) % BlockSize

\* ceil((L + 9) / 64)
PaddedBlocks(L) == (L + 9 + BlockSize - 1) \div BlockSize

\* C4: SM3 finalization is total: for every message length L, Sum completes
\* without a fault, having compressed the message, 0x80, the minimal number
\* of zero bytes and the 8-byte big-endian bit length, ceil((L+9)/64) blocks
\* in all, and the buffer fill count ends at 0.
Sm3SumTotal ==
    summed.n > 0 =>
        /\ ~summed.res.panic
        /\ summed.d0.fed = written \o <<128>> \o Zeros(MinimalZeros(Len(written)))
                                   \o BigEndian64(8 * Len(written))
        /\ Len(summed.d0.fed) = BlockSize * PaddedBlocks(Len(written))
        /\ summed.d0.nx = 0

\* the parts of a digest object that its later results depend on
Sm3State(d) == [h |-> d.h, nx |-> d.nx, len |-> d.len, x |-> Slice(d.x, 0, d.nx)]

\* C5: SM3 incrementality: however the input was split into chunks, the
\* digest object is in the state a single Write of the whole input gives, and
\* Sum has the outcome of a single Write followed by Sum, and of the one-shot
\* Sum function.
Sm3Incremental ==
    /\ Sm3State(sm3) = Sm3State(Write(New, written))
    /\ summed.n > 0 =>
           /\ summed.res = Sum(Write(New, written)).res
           /\ summed.res = SumData(written)

\* a one-byte chunk, then a chunk of two blocks and a byte that straddles the
\* first two block boundaries (bytes 3..64 of the message are still in the
\* buffer, behind the two bytes of the third block), then Sum
Sm3IncrementalWitness ==
    /\ Len(written) = 2 * BlockSize + 2
    /\ sm3.nx = 2
    /\ sm3.x[3] = MsgByte(3)
    /\ summed.n > 0
    /\ ~summed.res.panic

\* C6: SM3 Sum purity: a Sum call leaves the digest object unchanged, a second
\* Sum in a row returns what the first returned, and a Sum after further
\* Writes returns the digest of everything written.
Sm3SumPure ==
    /\ [][summed'.n > summed.n =>
             /\ sm3' = sm3
             /\ summed.n > 0 => summed'.res = summed.res]_vars
    /\ [](summed.n > 0 => summed.res = SumData(written))

\* Write(a); Sum; Write(b); Sum; Sum with a and b not empty and a digest
\* returned
Sm3SumPureWitness ==
    /\ summed.n = 2
    /\ summed.earlier
    /\ Len(written) > BlockSize
    /\ ~summed.res.panic

(***************************************************************************)
(* SM2 claims                                                              *)
(***************************************************************************)
\* the key object in use is a key pair (d, d * G) with d in 1 .. n-1
KeyPair == sm2key # NoKey /\ sm2key.D \in 1..(sm2P256Curve.N - 1)

\* the key object in use holds a valid private key, 1 <= d <= n-2
ValidKey == sm2key # NoKey /\ sm2key.D \in 1..(sm2P256Curve.N - 2)

\* C7: SM2 encryption round trip: for every key pair (d, Q = d * G) and every
\* plaintext M, Encrypt(Q, M) returns a ciphertext and Decrypt(d, Encrypt(Q, M))
\* returns exactly M with no error.
Sm2EncryptRoundTrip ==
    KeyPair =>
        /\ sm2.op = "Encrypt" => sm2.res.err = NoError
        /\ sm2.op = "Decrypt" => sm2.res = Ok(sm2.plaintext)

\* C8: SM2 sign/verify: for every valid private key d with Q = d * G and every
\* digest e, Sign returns no error and does not fault, whichever k it draws;
\* where it draws again, some k ends it; what it returns is a signature of
\* SignatureSize bytes, and Verify(Q, e, Sign(d, e)) is true.
Sm2SignVerifies ==
    ValidKey =>
        /\ sm2.op = "Sign" =>
               /\ sm2.res.err \in {NoError, Retry.err}
               /\ sm2.res.err = NoError => Len(sm2.res.val) = SignatureSize
               /\ sm2.res = Retry =>
                      \E k \in randFieldElement : Sign(sm2key, sm2.digest, k).err = NoError
        /\ sm2.op = "Verify" => sm2.ok

\* a signature under the largest valid key, of a digest e > n, with r short
\* enough to be left-padded, verified
Sm2SignVerifiesWitness ==
    /\ ValidKey
    /\ sm2key.D = sm2P256Curve.N - 2
    /\ sm2.op = "Verify"
    /\ SetBytes(sm2.digest) > sm2P256Curve.N
    /\ sm2.signature[1] = 0
    /\ sm2.ok

\* C9: SM2 private-key range: every private key accepted by DecodePrivateKey
\* or by Sign satisfies 1 <= d <= n-2; every other d is rejected with
\* invalid_private_key, so that Sign always finds the inverse of 1 + d.
Sm2PrivateKeyRange ==
    /\ sm2.op = "DecodePrivateKey" =>
           IF SetBytes(sm2.data) \in 1..(sm2P256Curve.N - 2)
           THEN sm2.res.err = NoError
           ELSE sm2.res = Fail(ErrInvalidPrivateKey)
    /\ sm2.op = "Sign" =>
           /\ sm2.res # Panicked
           /\ ~ValidKey => sm2.res = Fail(ErrInvalidPrivateKey)

\* C10: SM2 public-key encoding: for every on-curve public key Q = (x, y),
\* EncodePublicKey(Q) is 0x04, x and y, each left-padded to byteLen bytes,
\* and DecodePublicKey of it succeeds and returns (x, y).
Sm2PublicKeyEncoding ==
    (sm2key # NoKey /\ IsOnCurve(sm2key.X, sm2key.Y)) =>
        /\ sm2.op = "EncodePublicKey" =>
               /\ Len(sm2.res) = PublicKeySize
               /\ sm2.res = <<4>> \o FillBytes(sm2key.X, ByteLen)
                                  \o FillBytes(sm2key.Y, ByteLen)
        /\ sm2.op = "DecodePublicKey" => sm2.res = Ok(PublicKey(sm2key))

(***************************************************************************)
(* Padding claims                                                          *)
(***************************************************************************)
\* a pad call has returned
Padded == pad.op = "pad"

\* the scheme's unpad has run on what its pad returned
Unpadded == pad.op = "unpad"

\* C11: padding round trip for the count/terminator schemes: for PKCS#7,
\* ISO 7816-4, M1 and ANSI X.923, every byte string x and every block size
\* B in 1..255, unpad(pad(x, B)) succeeds and returns exactly x.
PadRoundTrip ==
    (/\ Unpadded
     /\ pad.scheme \in {"PKCS7", "ISO7816", "M1", "ANSIX923"}
     /\ pad.blockSize \in 1..255) => pad.res = Ok(pad.data)

\* a non-empty block-aligned x under ANSI X.923 with the largest block size
\* that divides its length, and PKCS#7 with B = 255, both recovered
PadRoundTripWitness ==
    /\ Unpadded
    /\ pad.res = Ok(pad.data)
    /\ \/ /\ pad.scheme = "ANSIX923"
          /\ Len(pad.data) = MaxPadLen
          /\ pad.blockSize = MaxPadLen
          /\ Len(pad.padded) = 2 * MaxPadLen
       \/ /\ pad.scheme = "PKCS7"
          /\ pad.blockSize = 255
          /\ Len(pad.data) = 1

\* C12: TBC padding round trip: for every byte string x and every block
\* size B >= 1, TBCUnPadding(TBCPadding(x, B)) returns exactly x.
PadTBCRoundTrip ==
    (Unpadded /\ pad.scheme = "TBC") => pad.res = Ok(pad.data)

\* C13: padded length: for every padding scheme, every input x including
\* the empty input and every block size B >= 1, pad(x, B) has a length that
\* is a positive multiple of B (never 0) and has x as its prefix.
PadLength ==
    Padded =>
        /\ pad.res.err = NoError
        /\ Len(pad.res.val) > 0
        /\ Len(pad.res.val) % pad.blockSize = 0
        /\ Len(pad.res.val) >= Len(pad.data)
        /\ Slice(pad.res.val, 0, Len(pad.data)) = pad.data

\* C14: Zero and M2 padding append exactly (B - len(x) mod B) mod B zero
\* bytes, so an already aligned input is returned with nothing appended.
PadZeroCount ==
    (Padded /\ pad.scheme \in {"Zero", "M2"}) =>
        pad.res = Ok(pad.data \o Repeat(0, (pad.blockSize
                                            - (Len(pad.data) % pad.blockSize))
                                           % pad.blockSize))

\* data ends in N copies of its last byte N
EndsInCount(data) ==
    /\ Len(data) > 0
    /\ data[Len(data)] <= Len(data)
    /\ \A i \in (Len(data) - data[Len(data)] + 1)..Len(data) :
           data[i] = data[Len(data)]

\* C15: PKCS#7 unpadding validates its input: PKCS7UnPadding and
\* PKCS7Unpadding return an error and no data whenever the input is empty,
\* the count byte N exceeds the input length, or the last N bytes are not
\* all N; they return data only when the input ends in N copies of N.
PadPKCS7Validates ==
    pad.op = "unpadRaw" =>
        IF EndsInCount(pad.data)
        THEN pad.res = Ok(Slice(pad.data, 0, Len(pad.data) - pad.data[Len(pad.data)]))
        ELSE pad.res.err # NoError /\ pad.res.val = <<>>

(***************************************************************************)
(* Claims about the mode adapters.                                         *)
(***************************************************************************)
\* the block size of the adapter's cipher
ModeBlockSize == CipherBlockSize(adapter.res.val.cipher)

\* the last call was Decrypt of what Encrypt of call.of returned
DecryptedBack == Built /\ call.op = "Decrypt" /\ call.paired

\* the last call was Decrypt of the input that Encrypt was called on before
DecryptedSame == Built /\ call.op = "Decrypt" /\ ~call.paired /\ call.n = 2

\* C16: on an ECB or CBC adapter, Encrypt of an input whose length is a
\* multiple of the block size (the empty one too) returns as many bytes
\* without error, and Decrypt of them returns the input.
ModeBlockRoundTrip ==
    (Built /\ adapter.kind \in {"ECB", "CBC"}) =>
        /\ (call.op = "Encrypt" /\ Len(call.x) % ModeBlockSize = 0) =>
               /\ call.res.err = NoError
               /\ Len(call.res.val) = Len(call.x)
        /\ DecryptedBack =>
               /\ call.res.err = NoError
               /\ call.res.val = call.of
               /\ Len(call.x) = Len(call.of)

ModeBlockRoundTripWitness ==
    /\ DecryptedBack
    /\ adapter.kind = "CBC"
    /\ adapter.res.val.cipher.kind = "rotadd"
    /\ Len(call.of) >= 2 * ModeBlockSize
    /\ call.x # call.of
    /\ call.res.val = call.of

\* C17: on a CFB adapter, with the default segment size or one in
\* 1..block size set through WithSegmentSize, Encrypt of an input of any
\* length returns as many bytes without error, and Decrypt of them returns
\* the input.
ModeCFBRoundTrip ==
    (Built /\ adapter.kind = "CFB") =>
        /\ (adapter.segmented /\ adapter.seg.err = NoError) =>
               adapter.res.val.segmentSize \in 1..ModeBlockSize
        /\ call.op # "none" =>
               /\ call.res.err = NoError
               /\ Len(call.res.val) = Len(call.x)
        /\ DecryptedBack => call.res.val = call.of

ModeCFBRoundTripWitness ==
    /\ DecryptedBack
    /\ adapter.kind = "CFB"
    /\ adapter.segmented
    /\ adapter.res.val.segmentSize = 2
    /\ ModeBlockSize = 3
    /\ Len(call.of) = 7
    /\ call.x # call.of
    /\ call.res.val = call.of

\* C18: on an OFB or CTR adapter every call returns as many bytes as it was
\* given, without error; Decrypt of an input returns what Encrypt of it
\* returns; and Decrypt of what Encrypt returned is the input.
ModeStreamInvolution ==
    (Built /\ adapter.kind \in {"OFB", "CTR"}) =>
        /\ call.op # "none" =>
               /\ call.res.err = NoError
               /\ Len(call.res.val) = Len(call.x)
        /\ DecryptedSame => call.res.val = call.first.val
        /\ DecryptedBack => call.res.val = call.of

ModeStreamInvolutionWitness ==
    /\ DecryptedBack
    /\ adapter.kind = "OFB"
    /\ ModeBlockSize = 3
    /\ Len(call.of) = 7
    /\ call.x # call.of
    /\ call.res.val = call.of

\* C19: on a CBC, CFB, OFB or CTR adapter the bytes of the stored IV/counter
\* are those given to the constructor, after any calls and after the caller
\* wrote to its slice, and a second Encrypt of an input returns what the
\* first returned.
ModeStoredIV ==
    (Built /\ adapter.kind # "ECB") =>
        /\ heap[adapter.ref] = adapter.given
        /\ (call.op = "Encrypt" /\ call.n = 2) =>
               /\ call.res.err = call.first.err
               /\ call.res.val = call.first.val

ModeStoredIVWitness ==
    /\ Built
    /\ adapter.kind = "CTR"
    /\ call.op = "Encrypt" /\ call.n = 2
    /\ heap.wrote = 1
    /\ heap.caller # adapter.given
    /\ Len(call.x) > ModeBlockSize
    /\ call.res.register # adapter.given
    /\ call.res.val = call.first.val

\* C20: on an ECB or CBC adapter a call on an input whose length is not a
\* multiple of the block size returns invalid_data_size and no output
\* without a call of the block cipher; a call on any other input does not
\* return invalid_data_size.
ModeAlignment ==
    (Built /\ adapter.kind \in {"ECB", "CBC"} /\ call.op # "none") =>
        IF Len(call.x) % ModeBlockSize # 0
        THEN /\ call.res.err = ErrInvalidDataSize
             /\ call.res.val = <<>>
             /\ call.res.calls = 0
        ELSE call.res.err # ErrInvalidDataSize

ModeAlignmentWitness ==
    /\ Built
    /\ adapter.kind = "CBC"
    /\ call.op = "Decrypt"
    /\ ModeBlockSize = 4
    /\ Len(call.x) = 5
    /\ call.res.err = ErrInvalidDataSize
    /\ call.res.calls = 0

(***************************************************************************)
(* RC4                                                                     *)
(***************************************************************************)
\* the Encrypt call whose output the last Decrypt call was given
Rc4Encrypted == rc4call.of

\* the instance was keyed with key, by New or by Reset, and not used since
Rc4Fresh(inst, key) == inst.made /\ inst.used = 0 /\ inst.key = key

\* C21: Decrypt of what Encrypt returned gives back the data of Encrypt when
\* the decrypting instance has the state the encrypting instance had before
\* its call, and it has that state when both were keyed with one key (by
\* New or by Reset) and not used since; Encrypt and Decrypt return the same
\* bytes and leave the same state behind.
Rc4RoundTrip ==
    rc4call.op = "Decrypt" =>
        /\ rc4call.before.r = Rc4Encrypted.before.r => rc4call.out = Rc4Encrypted.data
        /\ (\E key \in Rc4Keys : /\ Rc4Fresh(rc4call.before, key)
                                 /\ Rc4Fresh(Rc4Encrypted.before, key))
             => /\ rc4call.before.r = Rc4Encrypted.before.r
                /\ rc4call.out = Rc4Encrypted.data
        /\ rc4Encrypt(rc4call.before.r, rc4call.data)
             = rc4Decrypt(rc4call.before.r, rc4call.data)
        /\ rc4call.after = rc4Encrypt(rc4call.before.r, rc4call.data).r

Rc4RoundTripWitness ==
    /\ rc4call.op = "Decrypt"
    /\ rc4call.before.by = "Reset"
    /\ Rc4Encrypted.before.by = "New"
    /\ Rc4Fresh(rc4call.before, Pattern(3, 5))
    /\ Rc4Fresh(Rc4Encrypted.before, Pattern(3, 5))
    /\ Len(rc4call.data) = MaxRc4Len
    /\ rc4call.data # Rc4Encrypted.data
    /\ rc4call.out = Rc4Encrypted.data


(***************************************************************************)
(* The GCM tag                                                             *)
(***************************************************************************)
\* the ciphertext part and the tag part of what Seal returned
SealedCiphertext == Slice(sealed.res.val, 0, Len(sealed.res.val) - gcm.res.val.tagSize)

SealedTag ==
    Slice(sealed.res.val, Len(sealed.res.val) - gcm.res.val.tagSize,
          Len(sealed.res.val))

\* GHASH_H(aad, c): what GMAC absorbs from aad and c, with no mask
GHashOf(h, aad, c) == GMAC(h, Zeros(16), aad, c)

\* C22: the tag that Seal appends is GHASH_H(AAD, C) xor E_K(J0), truncated
\* to the tag size, with J0 = nonce || 00 00 00 01.
GcmTagFormula ==
    (sealed.called /\ sealed.res.err = NoError) =>
        SealedTag
          = Slice(XORBytes(Zeros(16),
                           GHashOf(gcm.res.val.h, sealed.aad, SealedCiphertext),
                           CipherEncrypt(gcm.res.val.cipher, deriveJ0(sealed.nonce))),
                  0, gcm.res.val.tagSize)

\* C23: the last block that GHASH absorbs for a Seal is the big-endian pair
\* of the bit lengths of the AAD and of the ciphertext as the caller gave
\* them.
GcmLengthBlock ==
    (sealed.called /\ sealed.res.err = NoError) =>
        computeTagLengths(sealed.aad, SealedCiphertext)
          = BigEndian64(8 * Len(sealed.aad)) \o BigEndian64(8 * Len(SealedCiphertext))


(***************************************************************************)
(* The CTR counter                                                         *)
(***************************************************************************)
\* the stored counter c0 of the CTR adapter, read as a big-endian integer:
\* its two low bytes, and the bytes above them (c0 itself can be beyond
\* the integers of TLC)
CtrLow ==
    SetBytes(Slice(Stored(adapter, heap).counter, ModeBlockSize - 2, ModeBlockSize))

CtrHigh == SetBytes(Slice(Stored(adapter, heap).counter, 0, ModeBlockSize - 2))

\* the counter block of block index i: (c0 + i) mod 2^(8 * block size)
CtrBlock(i) ==
    FillBytes((CtrHigh + ((CtrLow + i) \div 65536)) % (256 ^ (ModeBlockSize - 2)),
              ModeBlockSize - 2)
        \o FillBytes((CtrLow + i) % 65536, 2)

\* the number of blocks of the last call, the last one whole or not
CtrBlocks == ctrRounds(ModeBlockSize, Len(call.x))

\* C24: in a call on a CTR adapter the bytes of block i are those of the
\* input xor E_K((c0 + i) mod 2^(8 * block size)), c0 the stored counter as
\* a big-endian integer, and the running counter ends at c0 plus the number
\* of blocks, modulo 2^(8 * block size): Increment adds one with carry from
\* the rightmost byte and wraps from all 0xff to all zero.
ModeCounterSequence ==
    (Built /\ adapter.kind = "CTR" /\ call.op # "none") =>
        /\ \A i \in 0..(CtrBlocks - 1) :
             \A j \in 1..ModeBlockSize :
                 i * ModeBlockSize + j <= Len(call.x) =>
                     Xor(call.x[i * ModeBlockSize + j],
                         call.res.val[i * ModeBlockSize + j])
                       = CipherEncrypt(adapter.res.val.cipher, CtrBlock(i))[j]
        /\ call.res.register = CtrBlock(CtrBlocks)
        /\ \A i \in 0..CtrBlocks : ctrCounter(Stored(adapter, heap).counter, i) = CtrBlock(i)

ModeCounterSequenceWitness ==
    /\ Built
    /\ adapter.kind = "CTR"
    /\ call.op = "Encrypt"
    /\ ModeBlockSize = 3
    /\ Stored(adapter, heap).counter = <<255, 255, 255>>
    /\ Len(call.x) = 8
    /\ call.res.register = <<0, 0, 2>>
    /\ call.res.val # call.x


(***************************************************************************)
(* The SM3 streaming state                                                 *)
(***************************************************************************)
\* the digest object against the bytes written since New or the last Reset
Sm3StreamingState ==
    /\ sm3.nx \in 0..(BlockSize - 1)
    /\ sm3.nx = Len(written) % BlockSize
    /\ sm3.len = Len(written)
    /\ Slice(sm3.x, 0, sm3.nx) = Slice(written, Len(written) - sm3.nx, Len(written))
    /\ Len(sm3.fed) = BlockSize * (Len(written) \div BlockSize)
    /\ sm3.fed = Slice(written, 0, Len(sm3.fed))

\* C25: after New, after Reset and after every Write the fill count nx is
\* in 0..63 and is the number of bytes written since the last Reset modulo
\* 64, the buffer holds the last nx bytes written, the blocks compressed
\* are the whole 64-byte blocks of what was written, and the total length
\* does not decrease from one call to the next unless the call is Reset.
Sm3Streaming ==
    /\ []Sm3StreamingState
    /\ [][sm3'.len >= sm3.len \/ sm3' = Reset(sm3)]_vars

Sm3StreamingWitness ==
    /\ Len(written) = 2 * BlockSize + 2
    /\ sm3.nx = 2
    /\ Len(sm3.fed) = 2 * BlockSize
    /\ Slice(sm3.x, 0, 2) = <<MsgByte(2 * BlockSize + 1), MsgByte(2 * BlockSize + 2)>>
    /\ summed.n = 0


(***************************************************************************)
(* The SM2 signatures                                                      *)
(***************************************************************************)
\* r = (e + x1) mod n for the k of the last Sign, (x1, y1) = k * G
SignedR ==
    (SetBytes(sm2.digest) + ScalarBaseMult(BigBytes(sm2.k))[1]) % sm2P256Curve.N

\* the two halves of the signature returned, as integers
ReturnedR == SetBytes(Slice(sm2.res.val, 0, ByteLen))

ReturnedS == SetBytes(Slice(sm2.res.val, ByteLen, Len(sm2.res.val)))

\* C26: a signature that Sign returns is r || s of SignatureSize bytes, each
\* half left-padded, with r = (e + x1) mod n and s * (1 + d) = k - r * d
\* mod n both in 1..n-1, made from a k in 1..n-1 with r + k # n; a k with
\* r = 0, r + k = n or s = 0 is dropped for another k, and nothing is
\* returned from it.
Sm2SignatureValid ==
    (sm2.op = "Sign" /\ sm2key.D \in 1..(sm2P256Curve.N - 1)) =>
        /\ sm2.k \in 1..(sm2P256Curve.N - 1)
        /\ sm2.res.err = NoError =>
               /\ Len(sm2.res.val) = SignatureSize
               /\ sm2.res.val = FillBytes(ReturnedR, ByteLen) \o FillBytes(ReturnedS, ByteLen)
               /\ ReturnedR = SignedR
               /\ ReturnedR \in 1..(sm2P256Curve.N - 1)
               /\ ReturnedS \in 1..(sm2P256Curve.N - 1)
               /\ (ReturnedS * (1 + sm2key.D)) % sm2P256Curve.N
                    = (sm2.k - SignedR * sm2key.D) % sm2P256Curve.N
               /\ SignedR + sm2.k # sm2P256Curve.N
        /\ (SignedR = 0 \/ SignedR + sm2.k = sm2P256Curve.N) => sm2.res = Retry
        /\ ( /\ sm2key.D # sm2P256Curve.N - 1
             /\ (sm2.k - SignedR * sm2key.D) % sm2P256Curve.N = 0 ) => sm2.res = Retry
        /\ sm2.res = Retry => sm2.res.val = <<>>

\* a signature whose r and s are both left-padded, from a k above 1
Sm2SignatureValidWitness ==
    /\ sm2.op = "Sign"
    /\ sm2key.D \in 2..(sm2P256Curve.N - 2)
    /\ sm2.res.err = NoError
    /\ sm2.k > 1
    /\ sm2.res.val[1] = 0
    /\ sm2.res.val[ByteLen + 1] = 0
    /\ ReturnedR > 0
    /\ ReturnedS > 0


(***************************************************************************)
(* The RC5 round trip                                                      *)
(***************************************************************************)
\* the amount of the first rotation of Encrypt of blk by the instance r
Rc5FirstRotation(r, blk) ==
    Low5(WAdd(LittleEndianUint32(blk, 4), r.subKeys[2]))

\* C27: NewWithParams makes an instance for every key of 1..255 bytes and
\* every round count in 1..255; on every 8-byte block Encrypt and Decrypt of
\* that instance return a block, Decrypt of what Encrypt returned is the
\* block encrypted and Encrypt of what Decrypt returned is the block
\* decrypted.
Rc5RoundTrip ==
    /\ (~rc5.made /\ rc5.asked /\ rc5.wordSize = DefaultWordSize) =>
          ~(rc5.keySize \in 1..255 /\ rc5.rounds \in 1..255)
    /\ rc5.made =>
          /\ rc5.r.keySize \in 1..255
          /\ rc5.r.rounds \in 1..255
          /\ rc5.r.blockSize = Rc5BlockSize
          /\ Len(rc5.r.subKeys) = 2 * (rc5.r.rounds + 1)
    /\ (rc5call.op # "none" /\ Len(rc5call.data) = Rc5BlockSize) =>
          /\ rc5call.out.err = NoError
          /\ Len(rc5call.out.val) = Rc5BlockSize
          /\ rc5call.of.op \in {"Encrypt", "Decrypt"} =>
                /\ rc5call.of.op # rc5call.op
                /\ rc5call.out.val = rc5call.of.data

\* a block is back from Decrypt after an Encrypt whose first rotation was by 0
Rc5RoundTripWitness ==
    /\ rc5call.op = "Decrypt"
    /\ rc5call.of.op = "Encrypt"
    /\ rc5call.out = Ok(rc5call.of.data)
    /\ rc5call.data # rc5call.of.data
    /\ Rc5FirstRotation(rc5.r, rc5call.of.data) = 0


(***************************************************************************)
(* The Twofish round trip                                                  *)
(***************************************************************************)
\* C28: New makes an instance for every key of 16, 24 or 32 bytes, Encrypt
\* of that instance returns 16 bytes for every block of 16 bytes, and
\* Decrypt of what Encrypt returned is the block encrypted.
TwofishRoundTrip ==
    /\ (~twofish.made /\ twofish.asked) =>
          twofish.keySize \notin {KeySize128, KeySize192, KeySize256}
    /\ twofish.made => twofish.t.keySize \in {KeySize128, KeySize192, KeySize256}
    /\ (tfcall.op # "none" /\ Len(tfcall.data) = TwofishBlockSize) =>
          /\ tfcall.out.err = NoError
          /\ Len(tfcall.out.val) = TwofishBlockSize
          /\ tfcall.of.op = "Encrypt" =>
                /\ tfcall.op = "Decrypt"
                /\ tfcall.out.val = tfcall.of.data

\* a block is back from Decrypt, under a key of 24 bytes, from a ciphertext
\* that differs from it
TwofishRoundTripWitness ==
    /\ twofish.made
    /\ twofish.t.keySize = KeySize192
    /\ tfcall.op = "Decrypt"
    /\ tfcall.of.op = "Encrypt"
    /\ tfcall.out = Ok(tfcall.of.data)
    /\ tfcall.data # tfcall.of.data
    /\ tfcall.of.data[1] = 128


\* the call of goroutine g has returned
SharedDone(g) == goro[g].pc = "done"

\* C29: on a shared block cipher instance (AES, DES, SM4, Blowfish, Twofish,
\* RC5), under every interleaving of the steps of two Encrypt/Decrypt calls,
\* the instance and the caller's input block stay as they were handed over,
\* and every call that has returned returned what the same call returns
\* when it runs alone on that instance and block.
SharedReadOnly ==
    /\ shared.kind # "none" => shared.inst = made.inst /\ shared.input = made.input
    /\ \A g \in Goroutines :
          SharedDone(g) =>
             goro[g].out = blockCall(shared.kind, goro[g].op, made.inst, made.input)

\* both calls have returned a block, and each ran steps while the other was
\* between its first and its last step
SharedReadOnlyWitness ==
    /\ \A g \in Goroutines : SharedDone(g) /\ goro[g].out.err = NoError
    /\ \A g \in Goroutines : goro[g].met
    /\ goro[1].op # goro[2].op

\* the decrypt driver was called with the ciphertext and the Options value
\* of an encrypt driver that succeeded, in one of the three modes and with a
\* padding the decrypt driver removes
DriverRoundTripped ==
    /\ driver.stage = "decrypted"
    /\ options.Mode \in {"ECB", "CBC", "CTR"}
    /\ options.Padding \in {"PKCS#7", "None"}

\* C30: for each mode in {ECB, CBC, CTR}, Blowfish_Encrypt(p, opt) followed
\* by Blowfish_Decrypt(c, opt) with the same opt (and likewise the Twofish
\* drivers) returns p, and the encrypt call leaves opt.Iv byte for byte as it
\* was.
DriverRoundTrip ==
    DriverRoundTripped =>
        /\ driver.ivAfter = driver.ivBefore
        /\ driver.dec = Ok(driver.plaintext)

\* the same for the modes ECB and CBC only
DriverRoundTripNoCounter ==
    DriverRoundTripped /\ options.Mode # "CTR" =>
        /\ driver.ivAfter = driver.ivBefore
        /\ driver.dec = Ok(driver.plaintext)

\* in CTR mode Decrypt starts from the counter Encrypt left in opt.Iv: what
\* it returns is the plaintext only when Encrypt ran no block
DriverCounterAdvanced ==
    DriverRoundTripped /\ options.Mode = "CTR" =>
        /\ driver.ivBefore = driver.given
        /\ (Len(driver.enc.val) > 0 => driver.ivAfter # driver.ivBefore)
        /\ (Len(driver.enc.val) > 0 => driver.dec # Ok(driver.plaintext))

==============================================================================
